---- MODULE Spec2Model ----
(***************************************************************************)
(* A model of src/main.py: the InventoryManager store (location -> item -> *)
(* {quantity, category}, saved to a JSON file after every mutation) and    *)
(* the Telegram conversation handlers that drive it.                       *)
(*                                                                         *)
(* Values.  A message text is a sequence of symbols: the characters that   *)
(* matter to the parsers (digits, + - * / x . space, newline) one symbol   *)
(* each, and a run of other letters as one word symbol.  The Russian       *)
(* button texts of the source are written transliterated.  Python's None   *)
(* is the empty tuple and a present optional value v is <<v>>.  A dict is  *)
(* a sequence of entries in insertion order.                               *)
(***************************************************************************)
EXTENDS Integers, Sequences, FiniteSets, TLC

VARIABLES
    data,       \* InventoryManager.data: location -> ordered dict of records
    disk,       \* the content of inventory.json
    faults,     \* failed file writes so far
    ret,        \* the InventoryManager calls of the last step, with results
    steps,      \* steps taken so far
    pre,        \* data, disk, conv and user_data as they were before the last step
    conv,       \* state of each ConversationHandler (END when idle)
    user_data,  \* context.user_data of the operator
    turn        \* the handler that took the last update and what it replied

vars == <<data, disk, faults, ret, steps, pre, conv, user_data, turn>>

----------------------------------------------------------------------------
(* Bounds of the model *)

MaxQty == 3        \* no step takes a stored quantity above MaxQty ...
MaxNeg == 1        \* ... or below -MaxNeg
MaxFaults == 1     \* file writes that fail
MaxCalls == 1      \* SpecStore: calls made on the store


----------------------------------------------------------------------------
(* Values *)

None == <<>>
Some(v) == <<v>>

Locations == {"refrigerator_1", "refrigerator_2", "refrigerator_3", "cupboard"}
LocationOrder_CupboardFirst == <<"cupboard", "refrigerator_1", "refrigerator_2", "refrigerator_3">>
LocationOrder == <<"refrigerator_1", "refrigerator_2", "refrigerator_3", "cupboard">>
Refrigerators == <<"refrigerator_1", "refrigerator_2", "refrigerator_3">>

Cola == <<"Cola">>
Water == <<"Water">>
Names == {Cola, Water}
Drinks == <<"drinks">>
Snacks == <<"snacks">>
Categories == {None, Some(Drinks)}

----------------------------------------------------------------------------
(* Python dict, as a sequence of entries [name, quantity, category] *)

Keys(items) == [i \in 1..Len(items) |-> items[i].name]
Has(items, name) == \E i \in 1..Len(items) : items[i].name = name
IndexOf(items, name) == CHOOSE i \in 1..Len(items) : items[i].name = name
Get(items, name) == items[IndexOf(items, name)]
Put(items, name, quantity, category) ==
    LET e == [name |-> name, quantity |-> quantity, category |-> category]
    IN  IF Has(items, name)
        THEN [items EXCEPT ![IndexOf(items, name)] = e]
        ELSE Append(items, e)
Del(items, name) ==
    LET k == IndexOf(items, name)
    IN  [i \in 1..(Len(items) - 1) |-> IF i < k THEN items[i] ELSE items[i + 1]]
QuantityOf(items, name) == IF Has(items, name) THEN Get(items, name).quantity ELSE 0

create_default_data == [loc \in Locations |-> <<>>]

----------------------------------------------------------------------------
(* The JSON document: json.dump writes the dict as nested objects in dict  *)
(* order, None as null; json.load reads them back.                         *)

Absent == <<"absent">>
Corrupt == <<"corrupt">>

JsonValue_DropsCategory(category) == <<"null">>
JsonValue(category) == IF category = None THEN <<"null">> ELSE <<"string", category[1]>>
PyValue(json) == IF json[1] = "null" THEN None ELSE Some(json[2])
json_dump(d) ==
    <<"document",
      [k \in 1..Len(LocationOrder) |->
          LET items == d[LocationOrder[k]]
          IN  <<LocationOrder[k],
                [i \in 1..Len(items) |->
                    <<items[i].name, <<"quantity", items[i].quantity>>,
                                     <<"category", JsonValue(items[i].category)>> >>]>>]>>
json_load(doc) ==
    [loc \in {doc[2][k][1] : k \in 1..Len(doc[2])} |->
        LET obj == doc[2][CHOOSE k \in 1..Len(doc[2]) : doc[2][k][1] = loc][2]
        IN  [i \in 1..Len(obj) |->
                [name |-> obj[i][1], quantity |-> obj[i][2][2],
                 category |-> PyValue(obj[i][3][2])]]]

load_data(file) ==
    IF file = Absent \/ file = Corrupt THEN create_default_data ELSE json_load(file)

(* open(filename, 'w') may fail and leave the file as it was; the write may *)
(* fail after the file was truncated.                                       *)
WriteOutcomes == {"ok", "open_fails", "write_fails"}
save_data_ReportsSuccess(d, file, w) ==
    IF w = "ok" THEN [disk |-> json_dump(d), ok |-> TRUE]
    ELSE IF w = "open_fails" THEN [disk |-> file, ok |-> TRUE]
    ELSE [disk |-> Corrupt, ok |-> TRUE]
save_data(d, file, w) ==
    IF w = "ok" THEN [disk |-> json_dump(d), ok |-> TRUE]
    ELSE IF w = "open_fails" THEN [disk |-> file, ok |-> FALSE]
    ELSE [disk |-> Corrupt, ok |-> FALSE]

----------------------------------------------------------------------------
(* InventoryManager.  Each operation yields the store and the file after   *)
(* it and the record of the call: its arguments, its result and what       *)
(* became of its file write ("none" when it returned before writing).      *)

Outcome(d, file, op, args, ok, value, write) ==
    [data |-> d, disk |-> file,
     call |-> [op |-> op, args |-> args, ok |-> ok, value |-> value, write |-> write]]
Saved(d, file, w, op, args) ==
    LET s == save_data(d, file, w)
    IN  Outcome(d, s.disk, op, args, s.ok, "", w)

add_item_Overwrites(d, file, location, name, quantity, category, w) ==
    LET args == <<location, name, quantity, category>>
    IN  IF location \notin DOMAIN d THEN Outcome(d, file, "add_item", args, FALSE, "", "none")
        ELSE Saved([d EXCEPT ![location] = Put(@, name, quantity, category)],
                   file, w, "add_item", args)
add_item(d, file, location, name, quantity, category, w) ==
    LET args == <<location, name, quantity, category>>
    IN  IF location \notin DOMAIN d THEN Outcome(d, file, "add_item", args, FALSE, "", "none")
        ELSE IF Has(d[location], name) THEN Outcome(d, file, "add_item", args, FALSE, "", "none")
        ELSE Saved([d EXCEPT ![location] = Put(@, name, quantity, category)],
                   file, w, "add_item", args)

edit_item_ClearsCategory(d, file, location, name, new_quantity, new_category, w) ==
    LET args == <<location, name, new_quantity, new_category>>
    IN  IF location \notin DOMAIN d \/ ~Has(d[location], name)
        THEN Outcome(d, file, "edit_item", args, FALSE, "", "none")
        ELSE LET old == Get(d[location], name)
                 q == IF new_quantity # None THEN new_quantity[1] ELSE old.quantity
             IN  Saved([d EXCEPT ![location] = Put(@, name, q, new_category)],
                       file, w, "edit_item", args)
edit_item(d, file, location, name, new_quantity, new_category, w) ==
    LET args == <<location, name, new_quantity, new_category>>
    IN  IF location \notin DOMAIN d \/ ~Has(d[location], name)
        THEN Outcome(d, file, "edit_item", args, FALSE, "", "none")
        ELSE LET old == Get(d[location], name)
                 q == IF new_quantity # None THEN new_quantity[1] ELSE old.quantity
                 c == IF new_category # None THEN new_category ELSE old.category
             IN  Saved([d EXCEPT ![location] = Put(@, name, q, c)], file, w, "edit_item", args)

remove_item_Everywhere(d, file, location, name, w) ==
    LET args == <<location, name>>
    IN  IF location \notin DOMAIN d \/ ~Has(d[location], name)
        THEN Outcome(d, file, "remove_item", args, FALSE, "", "none")
        ELSE Saved([loc \in DOMAIN d |-> IF Has(d[loc], name) THEN Del(d[loc], name) ELSE d[loc]],
                   file, w, "remove_item", args)
remove_item(d, file, location, name, w) ==
    LET args == <<location, name>>
    IN  IF location \notin DOMAIN d \/ ~Has(d[location], name)
        THEN Outcome(d, file, "remove_item", args, FALSE, "", "none")
        ELSE Saved([d EXCEPT ![location] = Del(@, name)], file, w, "remove_item", args)

get_inventory(d, location) == IF location \in DOMAIN d THEN d[location] ELSE <<>>
get_cupboard_items(d) == IF "cupboard" \in DOMAIN d THEN d["cupboard"] ELSE <<>>

(* The first refrigerator that holds the item, else refrigerator_1. *)
TargetLocation_AlwaysFirst(d, item_name) == "refrigerator_1"
TargetLocation(d, item_name) ==
    LET holding == {i \in 1..Len(Refrigerators) : Has(d[Refrigerators[i]], item_name)}
    IN  IF holding = {} THEN "refrigerator_1"
        ELSE Refrigerators[CHOOSE i \in holding : \A j \in holding : i <= j]

FillTarget_Overwrites(target, item_name, quantity, category) ==
    Put(target, item_name, quantity, category)
(* Add to the record of the target location, or create it there. *)
FillTarget(target, item_name, quantity, category) ==
    IF Has(target, item_name)
    THEN Put(target, item_name, Get(target, item_name).quantity + quantity,
             Get(target, item_name).category)
    ELSE Put(target, item_name, quantity, category)

move_from_cupboard_Unchecked(d, file, item_name, quantity, w) ==
    LET args == <<item_name, quantity>>
        target_location == TargetLocation(d, item_name)
        left == QuantityOf(d["cupboard"], item_name) - quantity
        d2 == [d EXCEPT !["cupboard"] = IF left = 0 THEN Del(@, item_name)
                                        ELSE Put(@, item_name, left, Get(@, item_name).category),
                        ![target_location] = FillTarget(@, item_name, quantity, None)]
    IN  IF ~Has(d["cupboard"], item_name)
        THEN Outcome(d, file, "move_from_cupboard", args, FALSE, "Tovar ne nayden v shkafu", "none")
        ELSE IF save_data(d2, file, w).ok
        THEN Outcome(d2, save_data(d2, file, w).disk, "move_from_cupboard", args, TRUE,
                     target_location, w)
        ELSE Outcome(d2, save_data(d2, file, w).disk, "move_from_cupboard", args, FALSE,
                     "Oshibka sohraneniya dannyh", w)
move_from_cupboard(d, file, item_name, quantity, w) ==
    LET args == <<item_name, quantity>>
    IN  IF "cupboard" \notin DOMAIN d \/ ~Has(d["cupboard"], item_name)
        THEN Outcome(d, file, "move_from_cupboard", args, FALSE, "Tovar ne nayden v shkafu", "none")
        ELSE IF Get(d["cupboard"], item_name).quantity < quantity
        THEN Outcome(d, file, "move_from_cupboard", args, FALSE, "Nedostatochno tovara v shkafu", "none")
        ELSE
        LET target_location == TargetLocation(d, item_name)
            before == Get(d["cupboard"], item_name)
            left == before.quantity - quantity
            \* decrement, and delete the record when it reached 0
            cupboard == IF left = 0 THEN Del(d["cupboard"], item_name)
                        ELSE Put(d["cupboard"], item_name, left, before.category)
            \* the category is read from the cupboard after the decrement
            category == IF Has(cupboard, item_name) THEN Get(cupboard, item_name).category
                        ELSE None
            d2 == [d EXCEPT !["cupboard"] = cupboard,
                            ![target_location] = FillTarget(@, item_name, quantity, category)]
            s == save_data(d2, file, w)
        IN  IF s.ok THEN Outcome(d2, s.disk, "move_from_cupboard", args, TRUE, target_location, w)
            ELSE Outcome(d2, s.disk, "move_from_cupboard", args, FALSE, "Oshibka sohraneniya dannyh", w)

RECURSIVE AddGoods_Overwrites(_, _)
AddGoods_Overwrites(cupboard, goods_list) ==
    IF goods_list = <<>> THEN cupboard
    ELSE LET item_name == Head(goods_list)[1]
             quantity == Head(goods_list)[2]
             next == IF Has(cupboard, item_name)
                     THEN Put(cupboard, item_name, quantity, Get(cupboard, item_name).category)
                     ELSE Put(cupboard, item_name, quantity, None)
         IN  AddGoods_Overwrites(next, Tail(goods_list))
RECURSIVE AddGoods(_, _)
AddGoods(cupboard, goods_list) ==
    IF goods_list = <<>> THEN cupboard
    ELSE LET item_name == Head(goods_list)[1]
             quantity == Head(goods_list)[2]
             next == IF Has(cupboard, item_name)
                     THEN Put(cupboard, item_name, Get(cupboard, item_name).quantity + quantity,
                              Get(cupboard, item_name).category)
                     ELSE Put(cupboard, item_name, quantity, None)
         IN  AddGoods(next, Tail(goods_list))

add_to_cupboard(d, file, goods_list, w) ==
    Saved([d EXCEPT !["cupboard"] = AddGoods(@, goods_list)], file, w,
          "add_to_cupboard", <<goods_list>>)

----------------------------------------------------------------------------
(* Message texts and the parsers applied to them *)

Digits == <<"0", "1", "2", "3", "4", "5", "6", "7", "8", "9">>
IsDigit(c) == \E i \in 1..Len(Digits) : Digits[i] = c

SubText(t, a, b) == [i \in 1..(b - a + 1) |-> t[a + i - 1]]
(* str.strip(): the text without leading and trailing whitespace *)
Strip(t) ==
    LET inked == {i \in 1..Len(t) : t[i] \notin {" ", "\n"}}
    IN  IF inked = {} THEN <<>>
        ELSE SubText(t, CHOOSE i \in inked : \A j \in inked : i <= j,
                        CHOOSE i \in inked : \A j \in inked : i >= j)

RECURSIVE DigitsValue(_)
DigitsValue(t) ==
    IF t = <<>> THEN 0
    ELSE 10 * DigitsValue(SubText(t, 1, Len(t) - 1))
           + (CHOOSE i \in 1..Len(Digits) : Digits[i] = t[Len(t)]) - 1

(* int(text): an optional sign and decimal digits, whitespace around them; *)
(* None for the ValueError.                                                *)
Unsigned(t) == IF t # <<>> /\ t[1] \in {"+", "-"} THEN SubText(t, 2, Len(t)) ELSE t
IntOf(negative, body) ==
    IF body = <<>> \/ \E i \in 1..Len(body) : ~IsDigit(body[i]) THEN None
    ELSE IF negative THEN Some(0 - DigitsValue(body))
    ELSE Some(DigitsValue(body))
ParseInt(text) == IntOf(Strip(text) # <<>> /\ Strip(text)[1] = "-", Unsigned(Strip(text)))

(* int(float(text)) for a decimal token: digits with one point, truncated. *)
DecimalOf(negative, whole, frac) ==
    IF ~(/\ \A i \in 1..Len(whole) : IsDigit(whole[i])
         /\ \A i \in 1..Len(frac) : IsDigit(frac[i])
         /\ Len(whole) + Len(frac) > 0)
    THEN None
    ELSE IF negative THEN Some(0 - DigitsValue(whole))
    ELSE Some(DigitsValue(whole))
FloatOf(negative, body) ==
    LET points == {i \in 1..Len(body) : body[i] = "."}
        k == CHOOSE i \in points : TRUE
    IN  IF points = {} THEN DecimalOf(negative, body, <<>>)
        ELSE IF Cardinality(points) > 1 THEN None
        ELSE DecimalOf(negative, SubText(body, 1, k - 1), SubText(body, k + 1, Len(body)))
ParseFloatInt(text) == FloatOf(Strip(text) # <<>> /\ Strip(text)[1] = "-", Unsigned(Strip(text)))

(* calculate_expression, first half: 'x' (Latin and Cyrillic) becomes '*', *)
(* then every character that is not a digit, * + - / or whitespace goes.   *)
CyrillicX == "x_cyrillic"
RECURSIVE Normalize(_)
Normalize(t) ==
    IF t = <<>> THEN <<>>
    ELSE LET c == IF Head(t) \in {"x", CyrillicX} THEN "*" ELSE Head(t)
         IN  IF IsDigit(c) \/ c \in {"*", "+", "-", "/", " ", "\n"} THEN <<c>> \o Normalize(Tail(t))
             ELSE Normalize(Tail(t))

(* Second half: Python's eval of what is left.  Tokens: decimal integers   *)
(* (no leading zero unless all zeros) and the operators + - * / // **.     *)
RECURSIVE Lex(_)
Lex(t) ==
    IF t = <<>> THEN <<>>
    ELSE IF t[1] = " " THEN Lex(Tail(t))
    ELSE IF t[1] = "\n" THEN <<[k |-> "bad", n |-> 0, o |-> ""]>>
    ELSE IF IsDigit(t[1]) THEN
        LET stops == {i \in 1..Len(t) : ~IsDigit(t[i])}
            e == IF stops = {} THEN Len(t) ELSE (CHOOSE i \in stops : \A j \in stops : i <= j) - 1
            run == SubText(t, 1, e)
            legal == Len(run) = 1 \/ run[1] # "0" \/ \A i \in 1..Len(run) : run[i] = "0"
        IN  <<IF legal THEN [k |-> "num", n |-> DigitsValue(run), o |-> ""]
              ELSE [k |-> "bad", n |-> 0, o |-> ""]>>
                \o Lex(SubText(t, e + 1, Len(t)))
    ELSE IF Len(t) >= 2 /\ t[1] \in {"*", "/"} /\ t[2] = t[1]
        THEN <<[k |-> "op", n |-> 0, o |-> t[1] \o t[1]]>> \o Lex(SubText(t, 3, Len(t)))
    ELSE <<[k |-> "op", n |-> 0, o |-> t[1]]>> \o Lex(Tail(t))

(* Numbers: n/d with d > 0; float says the value is a Python float.  The   *)
(* model computes floats exactly, which agrees with Python wherever the    *)
(* truncated result does not hinge on a rounding error.                    *)
Num(n, d, float) == [n |-> n, d |-> d, float |-> float]
RECURSIVE IntPow(_, _)
IntPow(b, e) == IF e = 0 THEN 1 ELSE b * IntPow(b, e - 1)
Arith(o, a, b) ==
    CASE o = "+" -> Some(Num(a.n * b.d + b.n * a.d, a.d * b.d, a.float \/ b.float))
      [] o = "-" -> Some(Num(a.n * b.d - b.n * a.d, a.d * b.d, a.float \/ b.float))
      [] o = "*" -> Some(Num(a.n * b.n, a.d * b.d, a.float \/ b.float))
      [] o = "/" -> IF b.n = 0 THEN None
                    ELSE IF b.n > 0 THEN Some(Num(a.n * b.d, a.d * b.n, TRUE))
                    ELSE Some(Num(0 - a.n * b.d, a.d * (0 - b.n), TRUE))
      [] o = "//" -> IF b.n = 0 THEN None
                     ELSE IF b.n > 0 THEN Some(Num((a.n * b.d) \div (a.d * b.n), 1, a.float \/ b.float))
                     ELSE Some(Num((0 - a.n * b.d) \div (a.d * (0 - b.n)), 1, a.float \/ b.float))
      [] o = "**" -> IF b.n % b.d # 0 THEN None   \* a fractional exponent: not modelled
                     ELSE LET e == b.n \div b.d
                          IN  IF e >= 0 THEN Some(Num(IntPow(a.n, e), IntPow(a.d, e), a.float \/ b.float))
                              ELSE IF a.n = 0 THEN None
                              ELSE IF a.n > 0 THEN Some(Num(IntPow(a.d, 0 - e), IntPow(a.n, 0 - e), TRUE))
                              ELSE Some(Num(IntPow(0 - a.d, 0 - e), IntPow(0 - a.n, 0 - e), TRUE))
      [] OTHER -> None

(* Recursive descent over the tokens.  A parse is [ok, v, rest]. *)
Parsed(v, rest) == [ok |-> TRUE, v |-> v, rest |-> rest]
NoParse == [ok |-> FALSE, v |-> Num(0, 1, FALSE), rest |-> <<>>]
IsOp(toks, ops) == toks # <<>> /\ toks[1].k = "op" /\ toks[1].o \in ops

(* r is the result of an operation, or None where it raised *)
Value(r, rest) == IF r = None THEN NoParse ELSE Parsed(r[1], rest)

RECURSIVE ParseFactor(_)
(* base ** e, e the parse of the exponent *)
Power(base, e) == IF e.ok THEN Value(Arith("**", base, e.v), e.rest) ELSE NoParse
ParsePower(toks) ==
    IF toks = <<>> \/ toks[1].k # "num" THEN NoParse
    ELSE IF IsOp(Tail(toks), {"**"})
    THEN Power(Num(toks[1].n, 1, FALSE), ParseFactor(Tail(Tail(toks))))
    ELSE Parsed(Num(toks[1].n, 1, FALSE), Tail(toks))
Signed(o, f) ==
    IF f.ok THEN Parsed(IF o = "-" THEN Num(0 - f.v.n, f.v.d, f.v.float) ELSE f.v, f.rest) ELSE NoParse
ParseFactor(toks) ==
    IF IsOp(toks, {"+", "-"}) THEN Signed(toks[1].o, ParseFactor(Tail(toks)))
    ELSE ParsePower(toks)

(* left is the value so far; more operands of the same level follow *)
RECURSIVE TermTail(_, _)
TermNext(p) == IF p.ok THEN TermTail(p.v, p.rest) ELSE NoParse
TermStep(left, o, f) == IF f.ok THEN TermNext(Value(Arith(o, left, f.v), f.rest)) ELSE NoParse
TermTail(left, toks) ==
    IF IsOp(toks, {"*", "/", "//"}) THEN TermStep(left, toks[1].o, ParseFactor(Tail(toks)))
    ELSE Parsed(left, toks)

RECURSIVE ExprTail(_, _)
ExprNext(p) == IF p.ok THEN ExprTail(p.v, p.rest) ELSE NoParse
ExprStep(left, o, f) == IF f.ok THEN ExprNext(Value(Arith(o, left, f.v), f.rest)) ELSE NoParse
ExprTail(left, toks) ==
    IF IsOp(toks, {"+", "-"}) THEN ExprStep(left, toks[1].o, TermNext(ParseFactor(Tail(toks))))
    ELSE Parsed(left, toks)
ParseExpr(toks) == ExprNext(TermNext(ParseFactor(toks)))

(* The source eval accepts is one logical line: eval drops leading spaces, *)
(* the tokenizer skips blank lines, rejects an indented line after the     *)
(* first and a last line of spaces only, and a second line with tokens is  *)
(* a syntax error.  LogicalLine is that line, or <<"\n">> where eval raises.   *)
LStrip(t) ==
    LET inked == {i \in 1..Len(t) : t[i] # " "}
    IN  IF inked = {} THEN <<>> ELSE SubText(t, CHOOSE i \in inked : \A j \in inked : i <= j, Len(t))
LineEnd(t, a) ==
    LET breaks == {i \in a..Len(t) : t[i] = "\n"}
    IN  IF breaks = {} THEN Len(t) ELSE (CHOOSE i \in breaks : \A j \in breaks : i <= j) - 1
LineStarts(t) == {1} \cup {i + 1 : i \in {j \in 1..Len(t) : t[j] = "\n"}}
ContentLines(t) == {a \in LineStarts(t) : \E i \in a..LineEnd(t, a) : t[i] # " "}
LineAt(t, c) ==
    IF c > 1 /\ t[c] = " " THEN <<"\n">>
    ELSE IF \E a \in LineStarts(t) : a > c /\ a <= Len(t) /\ \A b \in LineStarts(t) : b <= a
    THEN <<"\n">>
    ELSE SubText(t, c, LineEnd(t, c))
LogicalLine(t) ==
    IF Cardinality(ContentLines(t)) # 1 THEN <<"\n">>
    ELSE LineAt(t, CHOOSE a \in ContentLines(t) : TRUE)

(* int(eval(expression)), None for any exception *)
Evaluated_RoundsDown(p) ==
    IF ~p.ok \/ p.rest # <<>> THEN None
    ELSE Some(p.v.n \div p.v.d)
Evaluated(p) ==
    IF ~p.ok \/ p.rest # <<>> THEN None
    ELSE IF p.v.n >= 0 THEN Some(p.v.n \div p.v.d)
    ELSE Some(0 - ((0 - p.v.n) \div p.v.d))
calculate_expression(expression) == Evaluated(ParseExpr(Lex(LogicalLine(LStrip(Normalize(expression))))))

----------------------------------------------------------------------------
(* The state after construction: InventoryManager() loads the file, no     *)
(* conversation is open and user_data is empty.  The file is absent,       *)
(* unreadable, or what an earlier run of the program saved.                *)

Rec(name, quantity, category) == [name |-> name, quantity |-> quantity, category |-> category]
InitStores ==
    { [create_default_data EXCEPT
          !["cupboard"] = <<Rec(Cola, 2, Some(Drinks)), Rec(Water, 1, None)>>],
      [create_default_data EXCEPT
          !["refrigerator_1"] = <<Rec(Cola, 1, Some(Drinks))>>],
      [create_default_data EXCEPT
          !["refrigerator_1"] = <<Rec(Water, 1, Some(Drinks))>>,
          !["refrigerator_2"] = <<Rec(Cola, 1, None)>>,
          !["refrigerator_3"] = <<Rec(Cola, 2, Some(Drinks))>>,
          !["cupboard"] = <<Rec(Water, 2, None), Rec(Cola, 2, Some(Drinks))>>] }
InitFiles == {Absent, Corrupt} \cup {json_dump(s) : s \in InitStores}

END == "END"
Conversations == <<"add_item_conv", "search_item_conv", "remove_item_conv", "edit_item_conv",
                   "counting_conv", "receive_goods_conv", "fill_fridge_conv">>
(* context.user_data: each key is <<>> while it is not in the dict and <<v>> *)
(* once it holds v.                                                         *)
NoUserData ==
    [location |-> <<>>, name |-> <<>>, quantity |-> <<>>, category |-> <<>>,
     new_quantity |-> <<>>, new_category |-> <<>>, fill_item |-> <<>>, counting |-> <<>>]

Snapshot == [data |-> data, disk |-> disk, conv |-> conv, user_data |-> user_data]

Init ==
    /\ disk \in InitFiles
    /\ data = load_data(disk)
    /\ faults = 0
    /\ ret = <<>>
    /\ steps = 0
    /\ conv = [i \in 1..Len(Conversations) |-> END]
    /\ user_data = NoUserData
    /\ turn = [handler |-> "none", text |-> <<>>, replies |-> <<>>, error |-> FALSE]
    /\ pre = Snapshot

----------------------------------------------------------------------------
(* SpecStore: the InventoryManager called directly, with arguments drawn   *)
(* from small sets and every file write free to fail.                      *)

Writes == IF faults < MaxFaults THEN WriteOutcomes ELSE {"ok"}
InRange(d) == \A loc \in DOMAIN d : \A i \in 1..Len(d[loc]) : d[loc][i].quantity \in (0 - MaxNeg)..MaxQty
Failed(calls) == Cardinality({i \in 1..Len(calls) : calls[i].write \in {"open_fails", "write_fails"}})

Call(o) ==
    /\ steps < MaxCalls
    /\ InRange(o.data)
    /\ data' = o.data
    /\ disk' = o.disk
    /\ ret' = <<o.call>>
    /\ faults' = faults + Failed(<<o.call>>)
    /\ steps' = steps + 1
    /\ pre' = Snapshot
    /\ UNCHANGED <<conv, user_data, turn>>

CallAddItem ==
    \E a \in (Locations \X Names \X {1, 2} \X Categories) \cup {<<"freezer", Cola, 1, None>>},
       w \in Writes : Call(add_item(data, disk, a[1], a[2], a[3], a[4], w))

CallEditItem ==
    \E a \in (Locations \X Names \X {None, Some(0), Some(3)} \X {None, Some(Snacks)})
               \cup {<<"freezer", Cola, Some(1), None>>},
       w \in Writes : Call(edit_item(data, disk, a[1], a[2], a[3], a[4], w))

CallRemoveItem ==
    \E a \in (Locations \X Names) \cup {<<"freezer", Cola>>}, w \in Writes :
        Call(remove_item(data, disk, a[1], a[2], w))

CallMoveFromCupboard ==
    \E a \in Names \X (-1..3), w \in Writes : Call(move_from_cupboard(data, disk, a[1], a[2], w))

CallAddToCupboard ==
    \E goods_list \in UNION {[1..n -> Names \X {-1, 1, 2}] : n \in 1..2}, w \in Writes :
        Call(add_to_cupboard(data, disk, goods_list, w))

NextStore ==
    \/ CallAddItem
    \/ CallEditItem
    \/ CallRemoveItem
    \/ CallMoveFromCupboard
    \/ CallAddToCupboard

SpecStore == Init /\ [][NextStore]_vars

(* SpecCrud: add_item, edit_item and remove_item alone. *)
NextCrud ==
    \/ CallAddItem
    \/ CallEditItem
    \/ CallRemoveItem

SpecCrud == Init /\ [][NextCrud]_vars

----------------------------------------------------------------------------
(* Properties of the InventoryManager calls (SpecStore, SpecCrud) *)

TheCall == ret[1]
Called(op) == Len(ret) = 1 /\ TheCall.op = op

(* C1: a successful move_from_cupboard(item, q) conserves the sum of the   *)
(* item's cupboard and target quantities (an absent record counts 0),      *)
(* lowers the cupboard quantity by exactly q, and leaves no cupboard       *)
(* record if and only if that quantity reached exactly 0.                  *)
C1_TransferConservation ==
    (Called("move_from_cupboard") /\ TheCall.ok) =>
        LET item == TheCall.args[1]
            q == TheCall.args[2]
            target == TheCall.value
            cupboardBefore == QuantityOf(pre.data["cupboard"], item)
            cupboardAfter == QuantityOf(data["cupboard"], item)
        IN  /\ Has(pre.data["cupboard"], item)
            /\ cupboardBefore >= q
            /\ cupboardAfter + QuantityOf(data[target], item)
                 = cupboardBefore + QuantityOf(pre.data[target], item)
            /\ cupboardAfter = cupboardBefore - q
            /\ ~Has(data["cupboard"], item) <=> (cupboardBefore - q = 0)

(* A transfer of the whole cupboard quantity into a refrigerator that      *)
(* already holds the item, and a partial one. *)
C1_Witness ==
    /\ Called("move_from_cupboard") /\ TheCall.ok
    /\ TheCall.args[2] > 0
    /\ ~Has(data["cupboard"], TheCall.args[1])
    /\ Has(pre.data[TheCall.value], TheCall.args[1])

(* C3: when a transfer creates the record at the target, its category is   *)
(* the category the cupboard record had before the decrement, also when    *)
(* the whole cupboard quantity is moved.                                   *)
C3_CategoryCopied ==
    (/\ Called("move_from_cupboard") /\ TheCall.ok
     /\ ~Has(pre.data[TheCall.value], TheCall.args[1])) =>
        Get(data[TheCall.value], TheCall.args[1]).category
            = Get(pre.data["cupboard"], TheCall.args[1]).category

C9_WriteFailureReturned ==
    \A i \in 1..Len(ret) :
        ret[i].op \in {"add_item", "edit_item", "remove_item", "add_to_cupboard",
                       "move_from_cupboard"} =>
            /\ ret[i].write \in {"open_fails", "write_fails"} => ~ret[i].ok
            /\ ret[i].ok => ret[i].write = "ok"

(* A transfer whose write failed, reported with the save error. *)
C9_Witness ==
    /\ Called("move_from_cupboard") /\ TheCall.write \in {"open_fails", "write_fails"}
    /\ ~TheCall.ok /\ TheCall.value = "Oshibka sohraneniya dannyh"
    /\ data # pre.data

(* C11: add_item fails, with the store and the file as they were, when the *)
(* location is unknown or already holds the name.  Otherwise it appends    *)
(* exactly the record {quantity, category} under the name, leaves every    *)
(* other record alone and saves: it returns what the file write returned,  *)
(* and after a successful write the file is the dump of the store.         *)
C11_AddItem ==
    Called("add_item") =>
        LET location == TheCall.args[1]
            name == TheCall.args[2]
        IN  IF location \notin DOMAIN pre.data \/ Has(pre.data[location], name)
            THEN ~TheCall.ok /\ TheCall.write = "none" /\ data = pre.data /\ disk = pre.disk
            ELSE /\ data[location]
                      = Append(pre.data[location], Rec(name, TheCall.args[3], TheCall.args[4]))
                 /\ \A loc \in DOMAIN data \ {location} : data[loc] = pre.data[loc]
                 /\ DOMAIN data = DOMAIN pre.data
                 /\ TheCall.write \in WriteOutcomes
                 /\ TheCall.ok <=> TheCall.write = "ok"
                 /\ TheCall.ok => disk = json_dump(data)

(* A record with a category added beside another record, and saved. *)
C11_Witness ==
    /\ Called("add_item") /\ TheCall.ok
    /\ TheCall.args[4] # None
    /\ pre.data[TheCall.args[1]] # <<>>
    /\ Len(data[TheCall.args[1]]) = Len(pre.data[TheCall.args[1]]) + 1

(* C12: edit_item fails, with the store as it was, when the location or    *)
(* the item is missing.  Otherwise the record's quantity becomes the       *)
(* supplied quantity and its category the supplied category, a field that  *)
(* was not supplied keeps its value, and every other record, in this and   *)
(* in every other location, is unchanged.                                  *)
C12_EditItem ==
    Called("edit_item") =>
        LET location == TheCall.args[1]
            name == TheCall.args[2]
        IN  IF location \notin DOMAIN pre.data \/ ~Has(pre.data[location], name)
            THEN ~TheCall.ok /\ TheCall.write = "none" /\ data = pre.data /\ disk = pre.disk
            ELSE /\ Keys(data[location]) = Keys(pre.data[location])
                 /\ Get(data[location], name).quantity
                      = IF TheCall.args[3] # None THEN TheCall.args[3][1]
                        ELSE Get(pre.data[location], name).quantity
                 /\ Get(data[location], name).category
                      = IF TheCall.args[4] # None THEN TheCall.args[4]
                        ELSE Get(pre.data[location], name).category
                 /\ \A i \in 1..Len(data[location]) :
                        data[location][i].name # name => data[location][i] = pre.data[location][i]
                 /\ \A loc \in DOMAIN data \ {location} : data[loc] = pre.data[loc]
                 /\ DOMAIN data = DOMAIN pre.data
                 /\ TheCall.ok <=> TheCall.write = "ok"

(* A quantity alone supplied for a record that has a category and a        *)
(* neighbour in its location.                                              *)
C12_Witness ==
    /\ Called("edit_item") /\ TheCall.ok
    /\ TheCall.args[3] # None /\ TheCall.args[4] = None
    /\ Len(data[TheCall.args[1]]) > 1
    /\ Get(data[TheCall.args[1]], TheCall.args[2]).category # None
    /\ data # pre.data

(* C13: remove_item fails, with the store and the file as they were, when  *)
(* the location or the item is missing.  Otherwise it deletes exactly that *)
(* record: the other records of the location stay, in their order, every   *)
(* other location (a record of the same name included) is unchanged, and   *)
(* the store is saved: the call returns what the file write returned and   *)
(* after a successful write the file is the dump of the store.             *)
C13_RemoveItem ==
    Called("remove_item") =>
        LET location == TheCall.args[1]
            name == TheCall.args[2]
        IN  IF location \notin DOMAIN pre.data \/ ~Has(pre.data[location], name)
            THEN ~TheCall.ok /\ TheCall.write = "none" /\ data = pre.data /\ disk = pre.disk
            ELSE /\ ~Has(data[location], name)
                 /\ Len(data[location]) = Len(pre.data[location]) - 1
                 /\ \A i \in 1..Len(pre.data[location]) :
                        pre.data[location][i].name # name =>
                            /\ Has(data[location], pre.data[location][i].name)
                            /\ Get(data[location], pre.data[location][i].name)
                                 = pre.data[location][i]
                 /\ \A loc \in DOMAIN data \ {location} : data[loc] = pre.data[loc]
                 /\ DOMAIN data = DOMAIN pre.data
                 /\ TheCall.write \in WriteOutcomes
                 /\ TheCall.ok <=> TheCall.write = "ok"
                 /\ TheCall.ok => disk = json_dump(data)

(* An item removed from one location while another location holds a        *)
(* record of the same name.                                                *)
C13_Witness ==
    /\ Called("remove_item") /\ TheCall.ok
    /\ ~Has(data[TheCall.args[1]], TheCall.args[2])
    /\ data[TheCall.args[1]] # <<>>
    /\ \E loc \in Locations : Has(data[loc], TheCall.args[2])

(* C14: a transfer that passed its checks goes to the first of             *)
(* refrigerator_1, refrigerator_2, refrigerator_3 that already holds the   *)
(* item, or to refrigerator_1 when none does.  Only the cupboard record    *)
(* and the target record of that item change; the target record gains the  *)
(* quantity, and when the target already held the item its category is     *)
(* the one it had.                                                         *)
C14_TransferTarget ==
    (Called("move_from_cupboard") /\ TheCall.write # "none") =>
        LET item == TheCall.args[1]
            target == IF Has(pre.data["refrigerator_1"], item) THEN "refrigerator_1"
                      ELSE IF Has(pre.data["refrigerator_2"], item) THEN "refrigerator_2"
                      ELSE IF Has(pre.data["refrigerator_3"], item) THEN "refrigerator_3"
                      ELSE "refrigerator_1"
        IN  /\ TheCall.ok => TheCall.value = target
            /\ \A loc \in Locations \ {"cupboard", target} : data[loc] = pre.data[loc]
            /\ \A loc \in {"cupboard", target} :
                   /\ \A i \in 1..Len(pre.data[loc]) :
                          pre.data[loc][i].name # item =>
                              /\ Has(data[loc], pre.data[loc][i].name)
                              /\ Get(data[loc], pre.data[loc][i].name) = pre.data[loc][i]
                   /\ \A i \in 1..Len(data[loc]) :
                          data[loc][i].name # item => Has(pre.data[loc], data[loc][i].name)
            /\ Has(data[target], item)
            /\ QuantityOf(data[target], item)
                 = QuantityOf(pre.data[target], item) + TheCall.args[2]
            /\ Has(pre.data[target], item) =>
                   Get(data[target], item).category = Get(pre.data[target], item).category

(* A transfer into refrigerator_2, the first refrigerator holding the      *)
(* item, whose record keeps a category other than the cupboard record's.   *)
C14_Witness ==
    /\ Called("move_from_cupboard") /\ TheCall.ok
    /\ TheCall.value = "refrigerator_2"
    /\ TheCall.args[2] > 0
    /\ Has(pre.data["refrigerator_3"], TheCall.args[1])
    /\ Get(data["refrigerator_2"], TheCall.args[1]).category
         # Get(pre.data["cupboard"], TheCall.args[1]).category

(* C15: move_from_cupboard fails with the reason 'not found' when the      *)
(* cupboard has no record of the item and with the reason 'insufficient    *)
(* quantity' when the cupboard quantity is less than the requested one,    *)
(* each time with the store and the file as they were; a transfer whose    *)
(* file write failed fails with a third reason, different from both.       *)
C15_TransferErrors ==
    Called("move_from_cupboard") =>
        LET item == TheCall.args[1]
            unchanged == TheCall.write = "none" /\ data = pre.data /\ disk = pre.disk
        IN  IF ~Has(pre.data["cupboard"], item)
            THEN ~TheCall.ok /\ TheCall.value = "Tovar ne nayden v shkafu" /\ unchanged
            ELSE IF QuantityOf(pre.data["cupboard"], item) < TheCall.args[2]
            THEN ~TheCall.ok /\ TheCall.value = "Nedostatochno tovara v shkafu" /\ unchanged
            ELSE /\ TheCall.write \in WriteOutcomes
                 /\ TheCall.write # "ok" =>
                        /\ ~TheCall.ok
                        /\ TheCall.value = "Oshibka sohraneniya dannyh"
                        /\ TheCall.value \notin {"Tovar ne nayden v shkafu",
                                                 "Nedostatochno tovara v shkafu"}
                 /\ TheCall.write = "ok" => TheCall.ok /\ TheCall.value \in Locations

(* More than the cupboard holds was asked for. *)
C15_Witness ==
    /\ Called("move_from_cupboard") /\ ~TheCall.ok
    /\ Has(data["cupboard"], TheCall.args[1])
    /\ QuantityOf(data["cupboard"], TheCall.args[1]) = TheCall.args[2] - 1
    /\ TheCall.value = "Nedostatochno tovara v shkafu"

(* C19: add_to_cupboard changes only the cupboard.  For every name the     *)
(* cupboard quantity afterwards is the quantity before (0 without a        *)
(* record) plus the sum of the quantities of the pairs with that name; a   *)
(* name that had a record keeps its category, a new name gets a record     *)
(* with no category, a name that is in no pair gets none, and the          *)
(* refrigerators are unchanged.                                            *)
C19_Receive ==
    Called("add_to_cupboard") =>
        LET goods_list == TheCall.args[1]
            received(name) ==
                LET sum[i \in 0..Len(goods_list)] ==
                        IF i = 0 THEN 0
                        ELSE sum[i - 1] + (IF goods_list[i][1] = name THEN goods_list[i][2] ELSE 0)
                IN  sum[Len(goods_list)]
            listed(name) == \E i \in 1..Len(goods_list) : goods_list[i][1] = name
        IN  /\ \A loc \in Locations \ {"cupboard"} : data[loc] = pre.data[loc]
            /\ \A name \in Names :
                   /\ QuantityOf(data["cupboard"], name)
                        = QuantityOf(pre.data["cupboard"], name) + received(name)
                   /\ Has(data["cupboard"], name)
                        <=> (Has(pre.data["cupboard"], name) \/ listed(name))
                   /\ Has(pre.data["cupboard"], name) =>
                          Get(data["cupboard"], name).category
                            = Get(pre.data["cupboard"], name).category
                   /\ (listed(name) /\ ~Has(pre.data["cupboard"], name)) =>
                          Get(data["cupboard"], name).category = None
            /\ \A i \in 1..Len(data["cupboard"]) : data["cupboard"][i].name \in Names

(* Two pairs of a name whose cupboard record has a category, in a store    *)
(* with stocked refrigerators.                                             *)
C19_Witness ==
    /\ Called("add_to_cupboard") /\ TheCall.ok
    /\ Len(TheCall.args[1]) = 2
    /\ TheCall.args[1][1][1] = TheCall.args[1][2][1]
    /\ TheCall.args[1][1][2] + TheCall.args[1][2][2] = 1
    /\ Has(pre.data["cupboard"], TheCall.args[1][1][1])
    /\ Get(data["cupboard"], TheCall.args[1][1][1]).category # None
    /\ data["refrigerator_3"] # <<>>

----------------------------------------------------------------------------
(* The Telegram side: the texts of the keyboards and of the commands.      *)
(* Lower-case Cyrillic 'x' inside a word is a symbol of its own, because   *)
(* calculate_expression turns it into '*'.                                 *)

get_main_keyboard ==
    [add |-> <<"Dobavit", " ", "tovar">>, edit |-> <<"Redaktirovat", " ", "tovar">>,
     remove |-> <<"Udalit", " ", "tovar">>, view |-> <<"Prosmotret", " ", "inventar">>,
     search |-> <<"Poisk", " ", "tovara">>, export |-> <<"Eksport", " ", "v", " ", "TXT">>,
     receive |-> <<"Priem", " ", "tovara">>, fill |-> <<"Zapolnit", " ", CyrillicX, "olodilnik">>,
     counting |-> <<"Podschet", " ", "tovara">>, check |-> <<"Proverit", " ", "ostatki">>]
get_locations_keyboard ==
    [refrigerator_1 |-> <<"Holodilnik", " ", "1">>, refrigerator_2 |-> <<"Holodilnik", " ", "2">>,
     refrigerator_3 |-> <<"Holodilnik", " ", "3">>, cupboard |-> <<"Shkaf">>]
get_yes_no_keyboard == [yes |-> <<"Da">>, no |-> <<"Net">>]

(* filters.COMMAND: the message starts with a bot command *)
IsCommand(text) ==
    /\ Len(text) >= 2 /\ text[1] = "/"
    /\ ~IsDigit(text[2]) /\ text[2] \notin {"+", "-", "*", "/", ".", " ", "\n"}
IsCommandNamed(text, name) == IsCommand(text) /\ text[2] = name

(* str.lower() on the words the model uses *)
Lower(text) ==
    [i \in 1..Len(text) |->
        CASE text[i] = "Da" -> "da"
          [] text[i] = "DA" -> "da"
          [] text[i] = "Net" -> "net"
          [] OTHER -> text[i]]

location_map ==
    (get_locations_keyboard.refrigerator_1 :> "refrigerator_1")
        @@ (get_locations_keyboard.refrigerator_2 :> "refrigerator_2")
        @@ (get_locations_keyboard.refrigerator_3 :> "refrigerator_3")
        @@ (get_locations_keyboard.cupboard :> "cupboard")

----------------------------------------------------------------------------
(* Dispatch.  All handlers are in one group, so an update goes to the      *)
(* first registered handler that accepts it: the four command handlers,    *)
(* then the seven conversations, then view, export and check stock.        *)

EntryPoints ==
    << [text |-> get_main_keyboard.add, handler |-> "add_item_start"],
       [text |-> get_main_keyboard.search, handler |-> "search_item_start"],
       [text |-> get_main_keyboard.remove, handler |-> "remove_item_start"],
       [text |-> get_main_keyboard.edit, handler |-> "edit_item_start"],
       [text |-> get_main_keyboard.counting, handler |-> "start_counting"],
       [text |-> get_main_keyboard.receive, handler |-> "start_receive_goods"],
       [text |-> get_main_keyboard.fill, handler |-> "start_fill_fridge"] >>
StateHandler ==
    [ADD_LOCATION |-> "add_item_location", ADD_NAME |-> "add_item_name",
     ADD_QUANTITY |-> "add_item_quantity", ADD_CATEGORY |-> "add_item_category",
     SEARCH_ITEM |-> "search_item_result",
     REMOVE_LOCATION |-> "remove_item_location", REMOVE_ITEM |-> "remove_item_name",
     EDIT_LOCATION |-> "edit_item_location", EDIT_NAME |-> "edit_item_name",
     EDIT_QUANTITY |-> "edit_item_quantity", EDIT_CATEGORY |-> "edit_item_category",
     COUNTING_ITEM |-> "handle_counting_quantity", COUNTING_CONFIRM |-> "confirm_counting",
     RECEIVE_GOODS |-> "handle_receive_goods",
     FILL_FRIDGE_ITEM |-> "select_fill_item", FILL_FRIDGE_QUANTITY |-> "handle_fill_quantity"]

(* What conversation i does with the text: its entry point when idle, the  *)
(* handler of its state, else its fallback.                                *)
ConversationMatch(i, text) ==
    IF conv[i] = END
    THEN IF text = EntryPoints[i].text THEN EntryPoints[i].handler ELSE "none"
    ELSE IF (IF conv[i] = "COUNTING_CONFIRM"
             THEN text \in {get_yes_no_keyboard.yes, get_yes_no_keyboard.no}
             ELSE ~IsCommand(text))
    THEN StateHandler[conv[i]]
    ELSE IF IsCommandNamed(text, "cancel") THEN "cancel" ELSE "none"

Dispatch(text) ==
    LET matching == {i \in 1..Len(Conversations) : ConversationMatch(i, text) # "none"}
        first == CHOOSE i \in matching : \A j \in matching : i <= j
    IN  IF IsCommandNamed(text, "start") THEN [handler |-> "start", conversation |-> 0]
        ELSE IF IsCommandNamed(text, "help") THEN [handler |-> "help_command", conversation |-> 0]
        ELSE IF IsCommandNamed(text, "cancel") THEN [handler |-> "cancel", conversation |-> 0]
        ELSE IF IsCommandNamed(text, "set_check")
        THEN [handler |-> "set_periodic_check", conversation |-> 0]
        ELSE IF matching # {}
        THEN [handler |-> ConversationMatch(first, text), conversation |-> first]
        ELSE IF text = get_main_keyboard.view THEN [handler |-> "view_inventory", conversation |-> 0]
        ELSE IF text = get_main_keyboard.export THEN [handler |-> "export_to_txt", conversation |-> 0]
        ELSE IF text = get_main_keyboard.check THEN [handler |-> "check_stock", conversation |-> 0]
        ELSE [handler |-> "none", conversation |-> 0]

----------------------------------------------------------------------------
(* One update.  The handler the text is dispatched to runs to its end; a   *)
(* conversation takes the state its handler returned, and keeps its state  *)
(* when the handler raised.  What a handler outside a conversation returns *)
(* is dropped.                                                             *)

MaxTurns == 5             \* Spec: updates delivered
MaxStocktakeTurns == 6    \* SpecStocktake: updates delivered
MaxReceiveTurns == 3      \* SpecReceive: updates delivered
MaxCountAddTurns == 7     \* SpecCountAdd: updates delivered
MaxCountEditTurns == 8    \* SpecCountEdit: updates delivered
MaxSelectTurns == 8       \* SpecSelect: updates delivered
MaxFillTurns == 4         \* SpecFill: updates delivered

Apply(text, d, r) ==
    /\ InRange(r.data)
    /\ data' = r.data
    /\ disk' = r.disk
    /\ ret' = r.calls
    /\ faults' = faults + Failed(r.calls)
    /\ steps' = steps + 1
    /\ pre' = Snapshot
    /\ user_data' = r.user_data
    /\ conv' = IF d.conversation = 0 \/ r.error THEN conv
               ELSE [conv EXCEPT ![d.conversation] = r.next]
    /\ turn' = [handler |-> d.handler, text |-> text, replies |-> r.replies, error |-> r.error]

(* A scenario is the texts the operator may send and how many updates are  *)
(* delivered.  Taken: the texts handler h takes in this state.             *)
Taken(scenario, h) ==
    IF steps < scenario.turns THEN {text \in scenario.texts : Dispatch(text).handler = h} ELSE {}
Deliver(text, r) == Apply(text, Dispatch(text), r)

----------------------------------------------------------------------------
(* Handlers, one action each: the handler takes a text of the scenario     *)
(* that is dispatched to it.  A handler yields the store and the file      *)
(* after it, the store calls it made, user_data after it, the conversation *)
(* state it returned, its replies in order, and whether it ended in an     *)
(* exception; an exception leaves what was changed up to the raise.        *)

Reply(kind, info) == [kind |-> kind, info |-> info]
Answer(ud, next, replies) ==
    [data |-> data, disk |-> disk, calls |-> <<>>, user_data |-> ud,
     next |-> next, replies |-> replies, error |-> FALSE]
Raised(ud, replies) ==
    [data |-> data, disk |-> disk, calls |-> <<>>, user_data |-> ud,
     next |-> "", replies |-> replies, error |-> TRUE]
AfterCall(o, ud, next, replies) ==
    [data |-> o.data, disk |-> o.disk, calls |-> <<o.call>>, user_data |-> ud,
     next |-> next, replies |-> replies, error |-> FALSE]

start(scenario) ==
    \E text \in Taken(scenario, "start") :
        Deliver(text,
            Answer(user_data, END, <<Reply("welcome", <<>>)>>))
help_command(scenario) ==
    \E text \in Taken(scenario, "help_command") :
        Deliver(text,
            Answer(user_data, END, <<Reply("help", <<>>)>>))
cancel(scenario) ==
    \E text \in Taken(scenario, "cancel") :
        Deliver(text,
            Answer(user_data, END, <<Reply("cancelled", <<>>)>>))
(* datetime is the class here, so datetime.time(hour=10, minute=0) raises *)
set_periodic_check(scenario) ==
    \E text \in Taken(scenario, "set_periodic_check") :
        Deliver(text,
            Raised(user_data, <<>>))

(* Add item *)
add_item_start(scenario) ==
    \E text \in Taken(scenario, "add_item_start") :
        Deliver(text,
            Answer(user_data, "ADD_LOCATION", <<Reply("choose_location", <<>>)>>))

add_item_location(scenario) ==
    \E text \in Taken(scenario, "add_item_location") :
        Deliver(text,
            IF text \notin DOMAIN location_map
            THEN Answer(user_data, "ADD_LOCATION", <<Reply("choose_location_again", <<>>)>>)
            ELSE Answer([user_data EXCEPT !.location = Some(location_map[text])], "ADD_NAME",
                        <<Reply("enter_name", <<>>)>>))

add_item_name(scenario) ==
    \E text \in Taken(scenario, "add_item_name") :
        Deliver(text,
            Answer([user_data EXCEPT !.name = Some(text)], "ADD_QUANTITY", <<Reply("enter_quantity", <<>>)>>))

AddQuantity(quantity) ==
    IF quantity = None \/ quantity[1] <= 0
    THEN Answer(user_data, "ADD_QUANTITY", <<Reply("bad_quantity", <<>>)>>)
    ELSE Answer([user_data EXCEPT !.quantity = Some(quantity[1])], "ADD_CATEGORY",
                <<Reply("enter_category", <<>>)>>)
add_item_quantity(scenario) ==
    \E text \in Taken(scenario, "add_item_quantity") :
        Deliver(text,
            AddQuantity(ParseInt(text)))

add_item_category(scenario) ==
    \E text \in Taken(scenario, "add_item_category"), w \in Writes :
        Deliver(text,
            LET category == IF text # <<"-">> THEN Some(text) ELSE None
                ud == [user_data EXCEPT !.category = Some(category)]
                location == ud.location[1]
                name == ud.name[1]
                quantity == ud.quantity[1]
                o == add_item(data, disk, location, name, quantity, category, w)
            IN  AfterCall(o, ud, END,
                          <<Reply(IF o.call.ok THEN "added" ELSE "already_exists", <<name, location>>)>>))

(* Search *)
search_item(d, name) ==
    LET found == SelectSeq(LocationOrder, LAMBDA loc : Has(d[loc], name))
    IN  IF found = <<>> THEN None
        ELSE Some([i \in 1..Len(found) |->
                      [location |-> found[i], details |-> Get(d[found[i]], name)]])

search_item_start(scenario) ==
    \E text \in Taken(scenario, "search_item_start") :
        Deliver(text,
            Answer(user_data, "SEARCH_ITEM", <<Reply("enter_search", <<>>)>>))

search_item_result(scenario) ==
    \E text \in Taken(scenario, "search_item_result") :
        Deliver(text,
            LET results == search_item(data, text)
            IN  IF results = None THEN Answer(user_data, END, <<Reply("not_found", text)>>)
                ELSE Answer(user_data, END, <<Reply("found", results[1])>>))

(* Remove item *)
remove_item_start(scenario) ==
    \E text \in Taken(scenario, "remove_item_start") :
        Deliver(text,
            Answer(user_data, "REMOVE_LOCATION", <<Reply("choose_location", <<>>)>>))

remove_item_location(scenario) ==
    \E text \in Taken(scenario, "remove_item_location") :
        Deliver(text,
            IF text \notin DOMAIN location_map
            THEN Answer(user_data, "REMOVE_LOCATION", <<Reply("choose_location_again", <<>>)>>)
            ELSE LET location == location_map[text]
                     inventory == get_inventory(data, location)
                 IN  IF inventory = <<>>
                     THEN Answer(user_data, END, <<Reply("nothing_to_remove", location)>>)
                     ELSE Answer([user_data EXCEPT !.location = Some(location)], "REMOVE_ITEM",
                                 <<Reply("choose_item", Keys(inventory))>>))

remove_item_name(scenario) ==
    \E text \in Taken(scenario, "remove_item_name"), w \in Writes :
        Deliver(text,
            LET location == user_data.location[1]
                inventory == get_inventory(data, location)
            IN  IF ~Has(inventory, text)
                THEN Answer(user_data, END, <<Reply("item_not_found", <<text, location>>)>>)
                ELSE LET o == remove_item(data, disk, location, text, w)
                     IN  AfterCall(o, user_data, END,
                                   <<Reply(IF o.call.ok THEN "removed" ELSE "remove_failed",
                                           <<text, location>>)>>))

(* Edit item *)
edit_item_start(scenario) ==
    \E text \in Taken(scenario, "edit_item_start") :
        Deliver(text,
            Answer(user_data, "EDIT_LOCATION", <<Reply("choose_location", <<>>)>>))

edit_item_location(scenario) ==
    \E text \in Taken(scenario, "edit_item_location") :
        Deliver(text,
            IF text \notin DOMAIN location_map
            THEN Answer(user_data, "EDIT_LOCATION", <<Reply("choose_location_again", <<>>)>>)
            ELSE LET location == location_map[text]
                     inventory == get_inventory(data, location)
                 IN  IF inventory = <<>>
                     THEN Answer(user_data, END, <<Reply("nothing_to_edit", location)>>)
                     ELSE Answer([user_data EXCEPT !.location = Some(location)], "EDIT_NAME",
                                 <<Reply("choose_item", Keys(inventory))>>))

edit_item_name(scenario) ==
    \E text \in Taken(scenario, "edit_item_name") :
        Deliver(text,
            LET location == user_data.location[1]
                inventory == get_inventory(data, location)
            IN  IF ~Has(inventory, text)
                THEN Answer(user_data, END, <<Reply("item_not_found", <<text, location>>)>>)
                ELSE Answer([user_data EXCEPT !.name = Some(text)], "EDIT_QUANTITY",
                            <<Reply("editing", Get(inventory, text))>>))

NewQuantity(quantity) ==
    IF quantity = None \/ quantity[1] <= 0
    THEN Answer(user_data, "EDIT_QUANTITY", <<Reply("bad_quantity", <<>>)>>)
    ELSE Answer([user_data EXCEPT !.new_quantity = Some(quantity)], "EDIT_CATEGORY",
                <<Reply("enter_category", <<>>)>>)
edit_item_quantity(scenario) ==
    \E text \in Taken(scenario, "edit_item_quantity") :
        Deliver(text,
            IF text # <<"-">> THEN NewQuantity(ParseInt(text))
            ELSE Answer([user_data EXCEPT !.new_quantity = Some(None)], "EDIT_CATEGORY",
                        <<Reply("enter_category", <<>>)>>))

edit_item_category(scenario) ==
    \E text \in Taken(scenario, "edit_item_category"), w \in Writes :
        Deliver(text,
            LET new_category == IF text # <<"-">> THEN Some(text) ELSE None
                ud == [user_data EXCEPT !.new_category = Some(new_category)]
                location == ud.location[1]
                name == ud.name[1]
                new_quantity == IF Len(ud.new_quantity) = 0 THEN None ELSE ud.new_quantity[1]
                o == edit_item(data, disk, location, name, new_quantity, new_category, w)
            IN  AfterCall(o, ud, END, <<Reply(IF o.call.ok THEN "updated" ELSE "update_failed", name)>>))

(* Stocktake.  The session is user_data['counting']; results is the       *)
(* nested dict location -> item -> counted quantity, in insertion order.   *)
NewCounting_RefrigeratorsOnly ==
    [current_location_index |-> 0, results |-> <<>>, locations |-> Refrigerators,
     current_items |-> <<>>, current_item_index |-> <<>>, current_location |-> <<>>]
NewCounting ==
    [current_location_index |-> 0, results |-> <<>>, locations |-> LocationOrder,
     current_items |-> <<>>, current_item_index |-> <<>>, current_location |-> <<>>]

ResultsPut(results, location, item_name, calculated) ==
    LET r1 == IF \E i \in 1..Len(results) : results[i].location = location THEN results
              ELSE Append(results, [location |-> location, items |-> <<>>])
        k == CHOOSE i \in 1..Len(r1) : r1[i].location = location
        items == r1[k].items
        e == [name |-> item_name, quantity |-> calculated]
        items2 == IF \E j \in 1..Len(items) : items[j].name = item_name
                  THEN [items EXCEPT ![CHOOSE j \in 1..Len(items) : items[j].name = item_name] = e]
                  ELSE Append(items, e)
    IN  [r1 EXCEPT ![k].items = items2]

(* results.items() with items.items() inside: the entries in iteration order *)
RECURSIVE Entries(_)
Entries(results) ==
    IF results = <<>> THEN <<>>
    ELSE [i \in 1..Len(Head(results).items) |->
             [location |-> Head(results).location, name |-> Head(results).items[i].name,
              quantity |-> Head(results).items[i].quantity]] \o Entries(Tail(results))

SumDifferences_FirstOnly(lines) == IF lines = <<>> THEN 0 ELSE Head(lines).difference
RECURSIVE SumDifferences(_)
SumDifferences(lines) ==
    IF lines = <<>> THEN 0 ELSE Head(lines).difference + SumDifferences(Tail(lines))

finish_counting(ud, replies) ==
    LET entries == Entries(ud.counting[1].results)
        present == \A i \in 1..Len(entries) :
                       Has(get_inventory(data, entries[i].location), entries[i].name)
        lines == [i \in 1..Len(entries) |->
                    LET old_quantity == Get(get_inventory(data, entries[i].location),
                                            entries[i].name).quantity
                    IN  [location |-> entries[i].location, item |-> entries[i].name,
                         old_quantity |-> old_quantity, new_quantity |-> entries[i].quantity,
                         difference |-> entries[i].quantity - old_quantity]]
    IN  IF ~present THEN Raised(ud, replies)    \* KeyError: the item is gone
        ELSE Answer(ud, "COUNTING_CONFIRM",
                    Append(replies, Reply("report", [lines |-> lines,
                                                     total_difference |-> SumDifferences(lines)])))

RECURSIVE next_counting_location(_, _)
next_counting_location(ud, replies) ==
    LET counting_data == ud.counting[1]
        index == counting_data.current_location_index + 1
        c1 == [counting_data EXCEPT !.current_location_index = index]
        ud1 == [ud EXCEPT !.counting = Some(c1)]
    IN  IF index >= Len(c1.locations) THEN finish_counting(ud1, replies)
        ELSE LET location == c1.locations[index + 1]
                 items == get_inventory(data, location)
             IN  IF items = <<>>
                 THEN next_counting_location(ud1, Append(replies, Reply("location_empty", location)))
                 ELSE LET c2 == [c1 EXCEPT !.current_items = Some(Keys(items)),
                                           !.current_item_index = Some(0),
                                           !.current_location = Some(location)]
                      IN  Answer([ud EXCEPT !.counting = Some(c2)], "COUNTING_ITEM",
                                 Append(replies, Reply("count_prompt", <<location, items[1].name,
                                                                         items[1].quantity>>)))

start_counting(scenario) ==
    \E text \in Taken(scenario, "start_counting") :
        Deliver(text,
            LET ud == [user_data EXCEPT !.counting = Some(NewCounting)]
                location == NewCounting.locations[1]
                items == get_inventory(data, location)
            IN  IF items = <<>>
                THEN next_counting_location(ud, <<Reply("location_empty", location)>>)
                ELSE LET c == [NewCounting EXCEPT !.current_items = Some(Keys(items)),
                                                  !.current_item_index = Some(0),
                                                  !.current_location = Some(location)]
                     IN  Answer([ud EXCEPT !.counting = Some(c)], "COUNTING_ITEM",
                                <<Reply("count_prompt", <<location, items[1].name, items[1].quantity>>)>>))

(* The items are read from the store at every count. *)
RecordCount_ReadsStore(calculated) ==
    LET counting == user_data.counting[1]
    IN  IF calculated = None \/ calculated[1] < 0
        THEN Answer(user_data, "COUNTING_ITEM", <<Reply("bad_expression", <<>>)>>)
        ELSE
        LET location == counting.current_location[1]
            item_index == counting.current_item_index[1]
            items == Keys(get_inventory(data, location))
        IN  IF item_index >= Len(items) THEN Raised(user_data, <<>>)
            ELSE
            LET c1 == [counting EXCEPT !.results = ResultsPut(@, location, items[item_index + 1],
                                                              calculated[1]),
                                       !.current_items = Some(items),
                                       !.current_item_index = Some(item_index + 1)]
                ud == [user_data EXCEPT !.counting = Some(c1)]
            IN  IF item_index + 1 < Len(items)
                THEN Answer(ud, "COUNTING_ITEM",
                            <<Reply("count_prompt",
                                    <<location, items[item_index + 2],
                                      Get(get_inventory(data, location),
                                          items[item_index + 2]).quantity>>)>>)
                ELSE next_counting_location(ud, <<>>)
(* the part of handle_counting_quantity after the expression is evaluated *)
RecordCount(calculated) ==
    LET counting == user_data.counting[1]
    IN  IF calculated = None \/ calculated[1] < 0
        THEN Answer(user_data, "COUNTING_ITEM", <<Reply("bad_expression", <<>>)>>)
        ELSE
        LET location == counting.current_location[1]
            item_index == counting.current_item_index[1]
            items == counting.current_items[1]
        IN  IF item_index >= Len(items) THEN Raised(user_data, <<>>)    \* IndexError
            ELSE
            LET item_name == items[item_index + 1]
                c1 == [counting EXCEPT !.results = ResultsPut(@, location, item_name, calculated[1]),
                                       !.current_item_index = Some(item_index + 1)]
                ud == [user_data EXCEPT !.counting = Some(c1)]
            IN  IF item_index + 1 < Len(items)
                THEN LET next_item == items[item_index + 2]
                         inventory == get_inventory(data, location)
                     IN  IF ~Has(inventory, next_item) THEN Raised(ud, <<>>)    \* KeyError
                         ELSE Answer(ud, "COUNTING_ITEM",
                                     <<Reply("count_prompt", <<location, next_item,
                                                               Get(inventory, next_item).quantity>>)>>)
                ELSE next_counting_location(ud, <<>>)

handle_counting_quantity_TakesMagnitude(scenario) ==
    \E text \in Taken(scenario, "handle_counting_quantity") :
        Deliver(text,
            RecordCount(IF calculate_expression(text) # None /\ calculate_expression(text)[1] < 0
                        THEN Some(0 - calculate_expression(text)[1])
                        ELSE calculate_expression(text)))
handle_counting_quantity(scenario) ==
    \E text \in Taken(scenario, "handle_counting_quantity") :
        Deliver(text,
            RecordCount(calculate_expression(text)))

ApplyResults_FirstOnly(d, file, entries, ws) ==
    IF entries = <<>> THEN [data |-> d, disk |-> file, calls |-> <<>>]
    ELSE LET e == Head(entries)
             o == edit_item(d, file, e.location, e.name, Some(e.quantity), None, Head(ws))
         IN  [data |-> o.data, disk |-> o.disk, calls |-> <<o.call>>]
(* edit_item(location, item, new_quantity) for every entry; the results of *)
(* the calls are dropped.                                                  *)
RECURSIVE ApplyResults(_, _, _, _)
ApplyResults(d, file, entries, ws) ==
    IF entries = <<>> THEN [data |-> d, disk |-> file, calls |-> <<>>]
    ELSE LET e == Head(entries)
             o == edit_item(d, file, e.location, e.name, Some(e.quantity), None, Head(ws))
             rest == ApplyResults(o.data, o.disk, Tail(entries), Tail(ws))
         IN  [data |-> rest.data, disk |-> rest.disk, calls |-> <<o.call>> \o rest.calls]

(* one write outcome for each edit_item call of the turn *)
WriteVectors(n) ==
    {ws \in [1..n -> WriteOutcomes] :
        faults + Cardinality({i \in 1..n : ws[i] # "ok"}) <= MaxFaults}

Applied(a, replies) ==
    [data |-> a.data, disk |-> a.disk, calls |-> a.calls, user_data |-> user_data,
     next |-> END, replies |-> replies, error |-> FALSE]
confirm_counting_AppliesAlways(scenario) ==
    \E text \in Taken(scenario, "confirm_counting") :
        \E ws \in WriteVectors(Len(Entries(user_data.counting[1].results))) :
            Deliver(text,
                Applied(ApplyResults(data, disk, Entries(user_data.counting[1].results), ws),
                        <<Reply("discarded", <<>>)>>))
confirm_counting(scenario) ==
    \E text \in Taken(scenario, "confirm_counting") :
        \E ws \in WriteVectors(Len(Entries(user_data.counting[1].results))) :
            Deliver(text,
                IF Lower(text) = <<"da">>
                THEN Applied(ApplyResults(data, disk, Entries(user_data.counting[1].results), ws),
                             <<Reply("applied", <<>>)>>)
                ELSE Answer(user_data, END, <<Reply("discarded", <<>>)>>))

(* Receive goods *)
RECURSIVE SplitLines(_)
SplitLines(text) ==
    LET breaks == {i \in 1..Len(text) : text[i] = "\n"}
        k == CHOOSE i \in breaks : \A j \in breaks : i <= j
    IN  IF breaks = {} THEN <<text>>
        ELSE <<SubText(text, 1, k - 1)>> \o SplitLines(SubText(text, k + 1, Len(text)))

(* str.rsplit(' ', 1) *)
RSplit(line) ==
    LET spaces == {i \in 1..Len(line) : line[i] = " "}
        k == CHOOSE i \in spaces : \A j \in spaces : i >= j
    IN  IF spaces = {} THEN <<line>>
        ELSE <<SubText(line, 1, k - 1), SubText(line, k + 1, Len(line))>>

GoodsOf(line, item_name, quantity, truncated) ==
    IF quantity # None THEN [ok |-> TRUE, goods |-> <<item_name, quantity[1]>>, line |-> line]
    ELSE IF truncated # None THEN [ok |-> TRUE, goods |-> <<item_name, truncated[1]>>, line |-> line]
    ELSE [ok |-> FALSE, goods |-> <<"bad quantity">>, line |-> line]
PartsOf(line, parts) ==
    IF Len(parts) = 2 THEN GoodsOf(line, parts[1], ParseInt(parts[2]), ParseFloatInt(parts[2]))
    ELSE [ok |-> FALSE, goods |-> <<"bad line">>, line |-> line]
(* one line of the message: a (name, quantity) pair or an error *)
ParseLine(line) == PartsOf(line, RSplit(Strip(line)))
(* The lines up to the first one that does not parse. *)
ParseLines_StopsAtError(lines) ==
    LET bad == {i \in 1..Len(lines) : ~ParseLine(lines[i]).ok}
    IN  [i \in 1..(IF bad = {} THEN Len(lines) ELSE CHOOSE i \in bad : \A j \in bad : i <= j)
            |-> ParseLine(lines[i])]
ParseLines(lines) == [i \in 1..Len(lines) |-> ParseLine(lines[i])]

start_receive_goods(scenario) ==
    \E text \in Taken(scenario, "start_receive_goods") :
        Deliver(text,
            Answer(user_data, "RECEIVE_GOODS", <<Reply("enter_goods", <<>>)>>))

AddRecognised(goods_list, errors, w) ==
    IF goods_list = <<>>
    THEN Answer(user_data, "RECEIVE_GOODS", <<Reply("nothing_recognised", <<>>)>>)
    ELSE LET o == add_to_cupboard(data, disk, goods_list, w)
         IN  AfterCall(o, user_data, END,
                       <<IF o.call.ok
                         THEN Reply("received", [goods |-> goods_list, errors |-> errors])
                         ELSE Reply("receive_failed", <<>>)>>)
Recognise(parsed, w) ==
    LET recognised == SelectSeq(parsed, LAMBDA p : p.ok)
    IN  AddRecognised([i \in 1..Len(recognised) |-> recognised[i].goods],
                      SelectSeq(parsed, LAMBDA p : ~p.ok), w)

handle_receive_goods(scenario) ==
    \E text \in Taken(scenario, "handle_receive_goods"), w \in Writes :
        Deliver(text,
            Recognise(ParseLines(SplitLines(text)), w))

(* Fill fridge *)
start_fill_fridge(scenario) ==
    \E text \in Taken(scenario, "start_fill_fridge") :
        Deliver(text,
            LET cupboard_items == get_cupboard_items(data)
            IN  IF cupboard_items = <<>> THEN Answer(user_data, END, <<Reply("cupboard_empty", <<>>)>>)
                ELSE Answer(user_data, "FILL_FRIDGE_ITEM", <<Reply("choose_fill_item", Keys(cupboard_items))>>))

select_fill_item(scenario) ==
    \E text \in Taken(scenario, "select_fill_item") :
        Deliver(text,
            LET cupboard_items == get_cupboard_items(data)
            IN  IF ~Has(cupboard_items, text)
                THEN Answer(user_data, "FILL_FRIDGE_ITEM", <<Reply("not_in_cupboard", <<>>)>>)
                ELSE Answer([user_data EXCEPT !.fill_item = Some(text)], "FILL_FRIDGE_QUANTITY",
                            <<Reply("enter_fill_quantity", <<text, Get(cupboard_items, text).quantity>>)>>))

MoveQuantity(quantity, w) ==
    LET item_name == user_data.fill_item[1]
        cupboard_items == get_cupboard_items(data)
    IN  IF quantity = None
        THEN Answer(user_data, "FILL_FRIDGE_QUANTITY", <<Reply("bad_integer", <<>>)>>)
        ELSE IF ~Has(cupboard_items, item_name)
        THEN Answer(user_data, END, <<Reply("no_longer_available", <<>>)>>)
        ELSE IF quantity[1] > Get(cupboard_items, item_name).quantity
        THEN Answer(user_data, "FILL_FRIDGE_QUANTITY",
                    <<Reply("insufficient", Get(cupboard_items, item_name).quantity)>>)
        ELSE LET o == move_from_cupboard(data, disk, item_name, quantity[1], w)
             IN  AfterCall(o, user_data, END,
                           <<IF o.call.ok
                             THEN Reply("moved", <<item_name, quantity[1], o.call.value>>)
                             ELSE Reply("move_failed", o.call.value)>>)

handle_fill_quantity(scenario) ==
    \E text \in Taken(scenario, "handle_fill_quantity"), w \in Writes :
        Deliver(text,
            MoveQuantity(ParseInt(text), w))

(* View, export, check stock *)
Sections(d) ==
    [i \in 1..Len(LocationOrder) |-> [location |-> LocationOrder[i], items |-> d[LocationOrder[i]]]]

(* get_inventory() without a location is the whole dict *)
view_inventory(scenario) ==
    \E text \in Taken(scenario, "view_inventory") :
        Deliver(text,
            Answer(user_data, END, <<Reply("inventory", Sections(data))>>))

SumQuantities_CountsRecords(items) == Len(items)
RECURSIVE SumQuantities(_)
SumQuantities(items) ==
    IF items = <<>> THEN 0 ELSE Head(items).quantity + SumQuantities(Tail(items))

(* InventoryManager.export_to_txt: the report written, or None when the    *)
(* export file cannot be written.                                          *)
export_to_txt(d, x) ==
    IF x = "ok"
    THEN Some([sections |-> Sections(d),
               total_items |-> SumQuantities(d[LocationOrder[1]] \o d[LocationOrder[2]]
                                               \o d[LocationOrder[3]] \o d[LocationOrder[4]])])
    ELSE None

export_to_txt_handler(scenario) ==
    \E text \in Taken(scenario, "export_to_txt"), x \in {"ok", "fails"} :
        Deliver(text,
            LET filename == export_to_txt(data, x)
            IN  IF filename # None THEN Answer(user_data, END, <<Reply("export_document", filename[1])>>)
                ELSE Answer(user_data, END, <<Reply("export_error", <<>>)>>))

DefaultThreshold == 10
MinRecommended == 10
check_stock_levels_AtOrBelow(d, threshold) ==
    LET fridge_items == UNION {{d[Refrigerators[k]][i].name : i \in 1..Len(d[Refrigerators[k]])} :
                                  k \in 1..Len(Refrigerators)}
        cupboard_qty(item) == QuantityOf(d["cupboard"], item)
        total_in_fridges(item) == QuantityOf(d["refrigerator_1"], item)
                                    + QuantityOf(d["refrigerator_2"], item)
                                    + QuantityOf(d["refrigerator_3"], item)
        half(item) == (total_in_fridges(item) + 1) \div 2
    IN  {[item |-> item, current |-> cupboard_qty(item),
          recommended |-> IF half(item) > MinRecommended THEN half(item) ELSE MinRecommended] :
            item \in {it \in fridge_items : cupboard_qty(it) <= threshold}}
check_stock_levels_RoundsDown(d, threshold) ==
    LET fridge_items == UNION {{d[Refrigerators[k]][i].name : i \in 1..Len(d[Refrigerators[k]])} :
                                  k \in 1..Len(Refrigerators)}
        cupboard_qty(item) == QuantityOf(d["cupboard"], item)
        total_in_fridges(item) == QuantityOf(d["refrigerator_1"], item)
                                    + QuantityOf(d["refrigerator_2"], item)
                                    + QuantityOf(d["refrigerator_3"], item)
        half(item) == total_in_fridges(item) \div 2
    IN  {[item |-> item, current |-> cupboard_qty(item),
          recommended |-> IF half(item) > MinRecommended THEN half(item) ELSE MinRecommended] :
            item \in {it \in fridge_items : cupboard_qty(it) < threshold}}
(* to_order, as the set of its entries: the order of a Python set of names *)
(* is not fixed.                                                           *)
check_stock_levels(d, threshold) ==
    LET fridge_items == UNION {{d[Refrigerators[k]][i].name : i \in 1..Len(d[Refrigerators[k]])} :
                                  k \in 1..Len(Refrigerators)}
        cupboard_qty(item) == QuantityOf(d["cupboard"], item)
        total_in_fridges(item) == QuantityOf(d["refrigerator_1"], item)
                                    + QuantityOf(d["refrigerator_2"], item)
                                    + QuantityOf(d["refrigerator_3"], item)
        half(item) == (total_in_fridges(item) + 1) \div 2     \* math.ceil(total * 0.5)
    IN  {[item |-> item, current |-> cupboard_qty(item),
          recommended |-> IF half(item) > MinRecommended THEN half(item) ELSE MinRecommended] :
            item \in {it \in fridge_items : cupboard_qty(it) < threshold}}

check_stock(scenario) ==
    \E text \in Taken(scenario, "check_stock") :
        Deliver(text,
            LET low_stock == check_stock_levels(data, DefaultThreshold)
            IN  IF low_stock = {} THEN Answer(user_data, END, <<Reply("stock_ok", <<>>)>>)
                ELSE Answer(user_data, END, <<Reply("low_stock", low_stock)>>))


(* No handler accepts the update: nothing runs and nothing is replied. *)
Unhandled(scenario) ==
    \E text \in Taken(scenario, "none") : Deliver(text, Answer(user_data, END, <<>>))

(* SpecStocktake: a stocktake, with /cancel and the remove flow beside it. *)
Stocktake ==
    [turns |-> MaxStocktakeTurns,
     texts |->
    {get_main_keyboard.counting, <<"0">>, <<"3">>, <<"-", "1">>, get_yes_no_keyboard.yes,
         get_yes_no_keyboard.no, <<"da">>, <<"/", "cancel">>,
         get_main_keyboard.remove, get_locations_keyboard.refrigerator_1, Cola}]

NextStocktake ==
    \/ cancel(Stocktake)
    \/ start_counting(Stocktake)
    \/ handle_counting_quantity(Stocktake)
    \/ confirm_counting(Stocktake)
    \/ remove_item_start(Stocktake)
    \/ remove_item_location(Stocktake)
    \/ remove_item_name(Stocktake)
    \/ Unhandled(Stocktake)

SpecStocktake == Init /\ [][NextStocktake]_vars

(* Spec: every handler, on the texts of the keyboards, the commands and a  *)
(* few typed answers.                                                      *)
Everything ==
    [turns |-> MaxTurns,
     texts |->
    {get_main_keyboard.add, get_main_keyboard.edit, get_main_keyboard.remove,
         get_main_keyboard.view, get_main_keyboard.search, get_main_keyboard.export,
         get_main_keyboard.receive, get_main_keyboard.fill, get_main_keyboard.counting,
         get_main_keyboard.check,
         <<"/", "start">>, <<"/", "help">>, <<"/", "cancel">>, <<"/", "set_check">>,
         get_locations_keyboard.cupboard, get_yes_no_keyboard.yes, Cola, <<"2">>, <<"Cola", " ", "0">>}]

Next ==
    \/ start(Everything)
    \/ help_command(Everything)
    \/ cancel(Everything)
    \/ set_periodic_check(Everything)
    \/ add_item_start(Everything)
    \/ add_item_location(Everything)
    \/ add_item_name(Everything)
    \/ add_item_quantity(Everything)
    \/ add_item_category(Everything)
    \/ search_item_start(Everything)
    \/ search_item_result(Everything)
    \/ remove_item_start(Everything)
    \/ remove_item_location(Everything)
    \/ remove_item_name(Everything)
    \/ edit_item_start(Everything)
    \/ edit_item_location(Everything)
    \/ edit_item_name(Everything)
    \/ edit_item_quantity(Everything)
    \/ edit_item_category(Everything)
    \/ start_counting(Everything)
    \/ handle_counting_quantity(Everything)
    \/ confirm_counting(Everything)
    \/ start_receive_goods(Everything)
    \/ handle_receive_goods(Everything)
    \/ start_fill_fridge(Everything)
    \/ select_fill_item(Everything)
    \/ handle_fill_quantity(Everything)
    \/ view_inventory(Everything)
    \/ export_to_txt_handler(Everything)
    \/ check_stock(Everything)
    \/ Unhandled(Everything)

Spec == Init /\ [][Next]_vars

----------------------------------------------------------------------------
(* Properties of the conversations (Spec, SpecStocktake) *)

CountingConv == CHOOSE i \in 1..Len(Conversations) : Conversations[i] = "counting_conv"
Idle == \A i \in 1..Len(Conversations) : conv[i] = END
Replied(kind) == \E i \in 1..Len(turn.replies) : turn.replies[i].kind = kind

(* The session as it was when the last update arrived *)
Recorded == Entries(pre.user_data.counting[1].results)
IsRecorded(location, name) ==
    \E i \in 1..Len(Recorded) : Recorded[i].location = location /\ Recorded[i].name = name
RecordedQuantity(location, name) ==
    Recorded[CHOOSE i \in 1..Len(Recorded) :
                 Recorded[i].location = location /\ Recorded[i].name = name].quantity
Confirmed == turn.handler = "confirm_counting" /\ Lower(turn.text) = <<"da">>
Declined == turn.handler = "confirm_counting" /\ Lower(turn.text) # <<"da">>

(* C2: whenever no flow is open, every record of every location has a      *)
(* quantity above zero.                                                    *)
C2_PositiveQuantities ==
    Idle => \A loc \in Locations : \A i \in 1..Len(data[loc]) : data[loc][i].quantity > 0

(* C4: /cancel during a stocktake leaves the store as it was and ends the  *)
(* session, so that the update after it is not taken as a count or as a    *)
(* confirmation.                                                           *)
C4_CancelDiscards ==
    (turn.handler = "cancel" /\ pre.conv[CountingConv] # END) =>
        /\ data = pre.data
        /\ disk = pre.disk
        /\ conv[CountingConv] = END

(* C5 as stated: after a confirmed stocktake every recorded entry is in    *)
(* the store with the recorded quantity.                                   *)
C5_EveryEntryWritten ==
    Confirmed =>
        \A i \in 1..Len(Recorded) :
            /\ Has(data[Recorded[i].location], Recorded[i].name)
            /\ Get(data[Recorded[i].location], Recorded[i].name).quantity = Recorded[i].quantity

(* C5: after a confirmed stocktake every location holds the records it     *)
(* held before, in the same order and with the same categories; a record   *)
(* with a recorded entry has the recorded quantity and every other record  *)
(* its old quantity.  An entry whose record is gone creates no record.     *)
C5_ConfirmOverwrites ==
    Confirmed =>
        \A loc \in Locations :
            /\ Keys(data[loc]) = Keys(pre.data[loc])
            /\ \A i \in 1..Len(data[loc]) :
                /\ data[loc][i].category = pre.data[loc][i].category
                /\ data[loc][i].quantity =
                       IF IsRecorded(loc, data[loc][i].name)
                       THEN RecordedQuantity(loc, data[loc][i].name)
                       ELSE pre.data[loc][i].quantity

(* A confirmed stocktake of two records, one of them with a category,      *)
(* that changed a quantity.                                                *)
C5_Witness ==
    /\ Confirmed
    /\ Len(Recorded) >= 2
    /\ data # pre.data
    /\ \E i \in 1..Len(Recorded) :
          /\ Has(pre.data[Recorded[i].location], Recorded[i].name)
          /\ Get(pre.data[Recorded[i].location], Recorded[i].name).category # None
          /\ Get(pre.data[Recorded[i].location], Recorded[i].name).quantity # Recorded[i].quantity

(* C6: starting a stocktake, a count turn (the last one builds the report) *)
(* and a decline make no store call and leave the store and the file as    *)
(* they were; a decline ends the session with the changes reported as      *)
(* discarded.                                                              *)
C6_NoMutationBeforeConfirm ==
    /\ (turn.handler \in {"start_counting", "handle_counting_quantity"} \/ Declined) =>
          /\ data = pre.data
          /\ disk = pre.disk
          /\ ret = <<>>
    /\ Declined =>
          /\ conv[CountingConv] = END
          /\ turn.replies = <<Reply("discarded", <<>>)>>

(* A decline of a session that recorded a quantity other than the stored one. *)
C6_Witness ==
    /\ Declined
    /\ \E i \in 1..Len(Recorded) :
          /\ Has(data[Recorded[i].location], Recorded[i].name)
          /\ Get(data[Recorded[i].location], Recorded[i].name).quantity # Recorded[i].quantity

(* C7: an update that arrives while the confirmation is awaited and that   *)
(* no other handler takes leaves the session awaiting the confirmation,    *)
(* with its results and the store as they were, and is answered with the   *)
(* prompt again.                                                           *)
C7_Reprompts ==
    (pre.conv[CountingConv] = "COUNTING_CONFIRM" /\ turn.handler = "none" /\ turn.text # <<>>) =>
        /\ conv[CountingConv] = "COUNTING_CONFIRM"
        /\ user_data.counting = pre.user_data.counting
        /\ data = pre.data
        /\ disk = pre.disk
        /\ turn.replies # <<>>

(* C10: a confirmed stocktake one of whose edit_item calls returned        *)
(* failure is not reported as applied.                                     *)
C10_FailureSurfaced ==
    (Confirmed /\ \E i \in 1..Len(ret) : ~ret[i].ok) => ~Replied("applied")

(* C22: a text taken as a count that evaluates to the failure value or to  *)
(* a negative number leaves the session (location, item cursor, results),  *)
(* the store and the file as they were, keeps the count awaited and is     *)
(* answered with the request to try again; every quantity held in the      *)
(* session's results is a non-negative integer.                            *)
C22_InvalidCountRejected ==
    /\ (/\ turn.handler = "handle_counting_quantity"
        /\ \/ calculate_expression(turn.text) = None
           \/ calculate_expression(turn.text)[1] < 0) =>
            /\ ~turn.error
            /\ user_data = pre.user_data
            /\ conv = pre.conv
            /\ conv[CountingConv] = "COUNTING_ITEM"
            /\ turn.replies = <<Reply("bad_expression", <<>>)>>
            /\ data = pre.data /\ disk = pre.disk
    /\ user_data.counting # None =>
            \A i \in 1..Len(Entries(user_data.counting[1].results)) :
                Entries(user_data.counting[1].results)[i].quantity \in Nat

(* -1 is entered after a count was recorded. *)
C22_Witness ==
    /\ turn.handler = "handle_counting_quantity"
    /\ turn.text = <<"-", "1">>
    /\ Replied("bad_expression")
    /\ Entries(user_data.counting[1].results) # <<>>

(* C24: while no flow has written the store, a stocktake prompts for every *)
(* record of the store once, locations in the fixed order and items in the *)
(* order of their location: the entries recorded so far are the first      *)
(* records in that order, the record awaited is the next one, each valid   *)
(* count adds one entry, and the confirmation is awaited exactly when      *)
(* there is one entry for every record, after as many valid counts as the  *)
(* store has records.                                                      *)
C24_EveryRecordCountedOnce ==
    (faults = 0 /\ disk \in InitFiles /\ data = load_data(disk)) =>
        LET rec(loc) == [i \in 1..Len(data[loc]) |-> <<loc, data[loc][i].name>>]
            all == rec("refrigerator_1") \o rec("refrigerator_2")
                     \o rec("refrigerator_3") \o rec("cupboard")
            keys(entries) == [i \in 1..Len(entries) |-> <<entries[i].location, entries[i].name>>]
            counting == user_data.counting[1]
            counted == keys(Entries(counting.results))
        IN  /\ conv[CountingConv] = "COUNTING_ITEM" =>
                   /\ Len(counted) < Len(all)
                   /\ counted = SubText(all, 1, Len(counted))
                   /\ <<counting.current_location[1],
                        counting.current_items[1][counting.current_item_index[1] + 1]>>
                        = all[Len(counted) + 1]
            /\ conv[CountingConv] = "COUNTING_CONFIRM" => counted = all
            /\ turn.handler = "start_counting" => counted = <<>>
            /\ (/\ turn.handler = "handle_counting_quantity"
                /\ calculate_expression(turn.text) # None
                /\ calculate_expression(turn.text)[1] >= 0) =>
                   /\ ~turn.error
                   /\ Len(counted) = Len(Entries(pre.user_data.counting[1].results)) + 1
                   /\ Entries(counting.results)[Len(counted)].quantity
                        = calculate_expression(turn.text)[1]
                   /\ conv[CountingConv] = "COUNTING_ITEM" =>
                          /\ turn.replies[Len(turn.replies)].kind = "count_prompt"
                          /\ SubText(turn.replies[Len(turn.replies)].info, 1, 2)
                               = all[Len(counted) + 1]

(* The fifth count of a store of five records in four locations brings the *)
(* report.                                                                 *)
C24_Witness ==
    /\ faults = 0 /\ disk \in InitFiles /\ data = load_data(disk)
    /\ turn.handler = "handle_counting_quantity"
    /\ conv[CountingConv] = "COUNTING_CONFIRM"
    /\ Len(Entries(user_data.counting[1].results)) = 5
    /\ steps = 6

(* C27: an export changes neither the store nor the file nor any flow, and *)
(* the total of the report it sends is the sum of the quantities of all    *)
(* records of the four locations of the store at that time; the report     *)
(* lists every location with its records.                                  *)
C27_ExportTotal ==
    turn.handler = "export_to_txt" =>
        LET all == data["refrigerator_1"] \o data["refrigerator_2"]
                     \o data["refrigerator_3"] \o data["cupboard"]
            sum[i \in 0..Len(all)] == IF i = 0 THEN 0 ELSE sum[i - 1] + all[i].quantity
        IN  /\ data = pre.data /\ disk = pre.disk
            /\ conv = pre.conv /\ user_data = pre.user_data
            /\ ret = <<>> /\ ~turn.error
            /\ Len(turn.replies) = 1
            /\ Replied("export_document") \/ Replied("export_error")
            /\ Replied("export_document") =>
                   /\ turn.replies[1].info.total_items = sum[Len(all)]
                   /\ \A loc \in Locations :
                          \E i \in 1..Len(turn.replies[1].info.sections) :
                              /\ turn.replies[1].info.sections[i].location = loc
                              /\ turn.replies[1].info.sections[i].items = data[loc]

(* The export of a store with five records in four locations, 8 in all. *)
C27_Witness ==
    /\ turn.handler = "export_to_txt"
    /\ Replied("export_document")
    /\ turn.replies[1].info.total_items = 8
    /\ \A loc \in Locations : data[loc] # <<>>

(* C28: no turn of a stocktake ends in an unhandled error: whenever the     *)
(* session looks an item up in the store, for the next prompt or for the   *)
(* report, the item is there, also when the remove flow has deleted an     *)
(* item while the session is open.                                         *)
C28_NoUnhandledError ==
    turn.handler \in {"start_counting", "handle_counting_quantity", "confirm_counting"}
        => ~turn.error

----------------------------------------------------------------------------
(* SpecLevels: check_stock_levels called on stores around its two          *)
(* thresholds: Cola in the cupboard (absent, 9, 10 or 11) and in any of    *)
(* the refrigerators (up to 24 in all), Water in the cupboard alone.       *)

InitLevels ==
    /\ \E c \in {0, 9, 10, 11}, q1 \in {0, 1, 7}, q2 \in {0, 8}, q3 \in {0, 8} :
          data = [create_default_data EXCEPT
                    !["refrigerator_1"] = IF q1 = 0 THEN <<>> ELSE <<Rec(Cola, q1, Some(Drinks))>>,
                    !["refrigerator_2"] = IF q2 = 0 THEN <<>> ELSE <<Rec(Cola, q2, None)>>,
                    !["refrigerator_3"] = IF q3 = 0 THEN <<>> ELSE <<Rec(Cola, q3, None)>>,
                    !["cupboard"] = IF c = 0 THEN <<Rec(Water, 1, None)>>
                                    ELSE <<Rec(Water, 1, None), Rec(Cola, c, None)>>]
    /\ disk = json_dump(data)
    /\ faults = 0
    /\ ret = <<>>
    /\ steps = 0
    /\ conv = [i \in 1..Len(Conversations) |-> END]
    /\ user_data = NoUserData
    /\ turn = [handler |-> "none", text |-> <<>>, replies |-> <<>>, error |-> FALSE]
    /\ pre = Snapshot

CallCheckStockLevels_Restocks ==
    \E threshold \in {0, DefaultThreshold, DefaultThreshold + 1} :
        /\ steps < MaxCalls
        /\ ret' = <<[op |-> "check_stock_levels", args |-> <<threshold>>, ok |-> TRUE,
                     value |-> check_stock_levels(data, threshold), write |-> "none"]>>
        /\ data' = [data EXCEPT !["cupboard"] = Put(@, Cola, threshold, None)]
        /\ steps' = steps + 1
        /\ pre' = Snapshot
        /\ UNCHANGED <<disk, faults, conv, user_data, turn>>
(* check_stock_levels(threshold) assigns nothing: the call only yields its *)
(* result.                                                                 *)
CallCheckStockLevels ==
    \E threshold \in {0, DefaultThreshold, DefaultThreshold + 1} :
        /\ steps < MaxCalls
        /\ ret' = <<[op |-> "check_stock_levels", args |-> <<threshold>>, ok |-> TRUE,
                     value |-> check_stock_levels(data, threshold), write |-> "none"]>>
        /\ steps' = steps + 1
        /\ pre' = Snapshot
        /\ UNCHANGED <<data, disk, faults, conv, user_data, turn>>

SpecLevels == InitLevels /\ [][CallCheckStockLevels]_vars

(* C16: check_stock_levels(threshold) has an entry for a name exactly when *)
(* some refrigerator holds the name and its cupboard quantity (0 without a *)
(* cupboard record) is strictly below the threshold: a quantity equal to   *)
(* the threshold is not reported, one below it is, and a name held by the  *)
(* cupboard alone never is.  No name has two entries.                      *)
C16_LowStockEntries ==
    Called("check_stock_levels") =>
        /\ \A name \in Names :
               (\E e \in TheCall.value : e.item = name)
                 <=> /\ \E k \in 1..Len(Refrigerators) : Has(data[Refrigerators[k]], name)
                     /\ QuantityOf(data["cupboard"], name) < TheCall.args[1]
        /\ \A e \in TheCall.value : e.item \in Names
        /\ \A e, f \in TheCall.value : e.item = f.item => e = f

(* The cupboard holds exactly the threshold of an item kept in a           *)
(* refrigerator: nothing is reported.                                      *)
C16_Witness ==
    /\ Called("check_stock_levels")
    /\ TheCall.args[1] = DefaultThreshold
    /\ QuantityOf(data["cupboard"], Cola) = DefaultThreshold
    /\ Has(data["refrigerator_2"], Cola)
    /\ TheCall.value = {}

(* C17: every entry's 'current' is the cupboard quantity of its item and   *)
(* its 'recommended' is max(10, ceil(T / 2)) for T the item's quantity in  *)
(* the three refrigerators together: at least 10, at least T / 2, and the  *)
(* least such integer.                                                     *)
C17_Recommended ==
    Called("check_stock_levels") =>
        \A e \in TheCall.value :
            LET T == QuantityOf(data["refrigerator_1"], e.item)
                       + QuantityOf(data["refrigerator_2"], e.item)
                       + QuantityOf(data["refrigerator_3"], e.item)
            IN  /\ e.current = QuantityOf(data["cupboard"], e.item)
                /\ e.recommended >= 10
                /\ 2 * e.recommended >= T
                /\ e.recommended = 10 \/ 2 * (e.recommended - 1) < T

(* 23 in the refrigerators: 12 is recommended. *)
C17_Witness ==
    /\ Called("check_stock_levels")
    /\ \E e \in TheCall.value : e.item = Cola /\ e.recommended = 12 /\ e.current = 9
    /\ QuantityOf(data["refrigerator_1"], Cola) = 7

----------------------------------------------------------------------------
(* SpecReceive: the receive-goods flow, on messages of one to three lines  *)
(* some of which do not parse.                                             *)

Receiving ==
    [turns |-> MaxReceiveTurns,
     texts |->
    {get_main_keyboard.receive,
         <<"Water", " ", "2", "\n", "Juice", " ", "abc">>,
         <<"Cola", " ", "1", "\n", "Water", "\n", "Water", " ", "1", ".", "5">>,
         <<"Juice", " ", "abc">>,
         <<"Water", "\n", "Juice", " ", "abc">>,
         <<"Water", " ", "1">>}]

NextReceive ==
    \/ start_receive_goods(Receiving)
    \/ handle_receive_goods(Receiving)
    \/ Unhandled(Receiving)

SpecReceive == Init /\ [][NextReceive]_vars

(* C20 as stated: every line of a received message that does not parse is *)
(* reported to the operator as one line error.                             *)
C20_EveryErrorReported ==
    turn.handler = "handle_receive_goods" =>
        LET lines == SplitLines(turn.text)
            malformed(line) ==
                \/ Len(RSplit(Strip(line))) # 2
                \/ /\ ParseInt(RSplit(Strip(line))[2]) = None
                   /\ ParseFloatInt(RSplit(Strip(line))[2]) = None
        IN  \E i \in 1..Len(turn.replies) :
                /\ turn.replies[i].kind = "received"
                /\ [j \in 1..Len(turn.replies[i].info.errors)
                       |-> turn.replies[i].info.errors[j].line]
                     = SelectSeq(lines, malformed)

(* C20: in the receive-goods flow a message none of whose lines parses     *)
(* leaves the store and the file unchanged and the flow waiting for input, *)
(* with one reply that nothing was recognised.  Otherwise every line that  *)
(* parses is added to the cupboard, whatever the other lines are, and the  *)
(* flow ends; when the file write succeeded the reply lists one error for  *)
(* each line that did not parse, in order, and when it failed the reply is *)
(* the failure alone.                                                      *)
C20_LineErrors ==
    turn.handler = "handle_receive_goods" =>
        LET lines == SplitLines(turn.text)
            malformed(line) ==
                \/ Len(RSplit(Strip(line))) # 2
                \/ /\ ParseInt(RSplit(Strip(line))[2]) = None
                   /\ ParseFloatInt(RSplit(Strip(line))[2]) = None
            quantity(line) ==
                IF ParseInt(RSplit(Strip(line))[2]) # None
                THEN ParseInt(RSplit(Strip(line))[2])[1]
                ELSE ParseFloatInt(RSplit(Strip(line))[2])[1]
            received(name) ==
                LET sum[i \in 0..Len(lines)] ==
                        IF i = 0 THEN 0
                        ELSE IF malformed(lines[i]) THEN sum[i - 1]
                        ELSE IF RSplit(Strip(lines[i]))[1] # name THEN sum[i - 1]
                        ELSE sum[i - 1] + quantity(lines[i])
                IN  sum[Len(lines)]
            flow == conv[CHOOSE i \in 1..Len(Conversations) :
                             Conversations[i] = "receive_goods_conv"]
        IN  IF \A i \in 1..Len(lines) : malformed(lines[i])
            THEN /\ data = pre.data /\ disk = pre.disk /\ ret = <<>>
                 /\ flow = "RECEIVE_GOODS"
                 /\ Len(turn.replies) = 1 /\ Replied("nothing_recognised")
            ELSE /\ \A name \in Names :
                        QuantityOf(data["cupboard"], name)
                          = QuantityOf(pre.data["cupboard"], name) + received(name)
                 /\ \A loc \in Locations \ {"cupboard"} : data[loc] = pre.data[loc]
                 /\ flow = END
                 /\ Len(turn.replies) = 1
                 /\ IF TheCall.write = "ok"
                    THEN /\ turn.replies[1].kind = "received"
                         /\ [j \in 1..Len(turn.replies[1].info.errors)
                                |-> turn.replies[1].info.errors[j].line]
                              = SelectSeq(lines, malformed)
                    ELSE turn.replies[1].kind = "receive_failed"

(* Three lines, the middle one without a quantity: the first and the third *)
(* are added and one error is reported.                                    *)
C20_Witness ==
    /\ turn.handler = "handle_receive_goods"
    /\ Len(SplitLines(turn.text)) = 3
    /\ Replied("received")
    /\ Len(turn.replies[1].info.errors) = 1
    /\ QuantityOf(data["cupboard"], Water) = QuantityOf(pre.data["cupboard"], Water) + 1
    /\ QuantityOf(data["cupboard"], Cola) = QuantityOf(pre.data["cupboard"], Cola) + 1

----------------------------------------------------------------------------
(* SpecEval: calculate_expression called on every text of up to three      *)
(* symbols (digits, operators, both letters x, a word) and on sums of a    *)
(* number and a product or a quotient.                                     *)

MaxExprLen == 3    \* SpecEval: symbols of the texts that are enumerated in full

(* calculate_expression keeps no state: one call on each text. *)
CallCalculateExpression ==
    \E expression \in
          UNION {[1..n -> {"0", "1", "2", "7", "+", "-", "*", "/", "x", CyrillicX, "abc"}] :
                     n \in 0..MaxExprLen}
          \cup {<<a, o1, b, o2, c>> : a \in {"1", "7"}, b \in {"2", "7"}, c \in {"0", "2"},
                                      o1 \in {"+", "-", "*", "/", "x"}, o2 \in {"+", "-", "*", "/", "x"}}
          \cup {<<"4", "x", "8", "+", "4", "x", "7">>, <<"-", "5">>, <<"-", "7", "/", "2">>,
                <<" ", "1", "2", " ">>, <<"1", "abc", "0">>} :
        /\ steps = 0
        /\ ret' = <<[op |-> "calculate_expression", args |-> <<expression>>, ok |-> TRUE,
                     value |-> calculate_expression(expression), write |-> "none"]>>
        /\ steps' = steps + 1
        /\ pre' = Snapshot
        /\ UNCHANGED <<data, disk, faults, conv, user_data, turn>>

SpecEval == Init /\ [][CallCalculateExpression]_vars

(* C21: calculate_expression yields an integer or the failure value.  Both *)
(* letters x multiply, * and / bind tighter than + and -, a fractional     *)
(* result is truncated toward zero, and a text with nothing to evaluate, a *)
(* malformed one and a division by zero yield the failure value:           *)
(* 1+1 is 2, 4x8+4x7 is 60, abc fails, -5 is -5.                           *)
C21_Evaluator ==
    Called("calculate_expression") =>
        LET e == TheCall.args[1]
            v == TheCall.value
            D(c) == DigitsValue(<<c>>)
            times(c) == c \in {"*", "x", CyrillicX}
            trunc(n, d) == IF n >= 0 THEN n \div d ELSE 0 - ((0 - n) \div d)
        IN  /\ v = None \/ (Len(v) = 1 /\ v[1] \in Int)
            /\ e = <<"1", "+", "1">> => v = Some(2)
            /\ e = <<"4", "x", "8", "+", "4", "x", "7">> => v = Some(60)
            /\ e = <<"-", "5">> => v = Some(0 - 5)
            /\ e = <<"-", "7", "/", "2">> => v = Some(0 - 3)
            /\ (\A i \in 1..Len(e) : e[i] = "abc") => v = None
            /\ (Len(e) = 1 /\ IsDigit(e[1])) => v = Some(D(e[1]))
            /\ (Len(e) = 2 /\ IsDigit(e[1]) /\ ~IsDigit(e[2]) /\ e[2] # "abc") => v = None
            /\ (Len(e) = 3 /\ IsDigit(e[1]) /\ IsDigit(e[3])) =>
                   /\ times(e[2]) => v = Some(D(e[1]) * D(e[3]))
                   /\ e[2] = "+" => v = Some(D(e[1]) + D(e[3]))
                   /\ e[2] = "-" => v = Some(D(e[1]) - D(e[3]))
                   /\ e[2] = "/" => v = IF D(e[3]) = 0 THEN None ELSE Some(D(e[1]) \div D(e[3]))
            /\ (Len(e) = 5 /\ e[2] \in {"+", "-"} /\ ~(e[4] \in {"+", "-"})) =>
                   LET sign == IF e[2] = "+" THEN 1 ELSE 0 - 1
                   IN  IF times(e[4]) THEN v = Some(D(e[1]) + sign * D(e[3]) * D(e[5]))
                       ELSE IF D(e[5]) = 0 THEN v = None
                       ELSE v = Some(trunc(D(e[1]) * D(e[5]) + sign * D(e[3]), D(e[5])))
            /\ (Len(e) = 5 /\ ~(e[2] \in {"+", "-"}) /\ e[4] \in {"+", "-"}) =>
                   LET sign == IF e[4] = "+" THEN 1 ELSE 0 - 1
                   IN  IF times(e[2]) THEN v = Some(D(e[1]) * D(e[3]) + sign * D(e[5]))
                       ELSE v = Some(trunc(D(e[1]) + sign * D(e[5]) * D(e[3]), D(e[3])))

(* 1-7/2 is -2.5: the quotient binds first and the result is truncated to  *)
(* -2.                                                                     *)
C21_Witness ==
    /\ Called("calculate_expression")
    /\ TheCall.args[1] = <<"1", "-", "7", "/", "2">>
    /\ TheCall.value = Some(0 - 2)

----------------------------------------------------------------------------
(* SpecCountAdd: a stocktake with the add flow beside it: the flow of      *)
(* add_conv, registered first, takes the texts while it is open.           *)

CountingWhileAdding ==
    [turns |-> MaxCountAddTurns,
     texts |->
    {get_main_keyboard.counting, get_main_keyboard.add,
         get_locations_keyboard.refrigerator_1, get_locations_keyboard.cupboard,
         Water, <<"2">>, <<"-">>}]

NextCountAdd ==
    \/ start_counting(CountingWhileAdding)
    \/ handle_counting_quantity(CountingWhileAdding)
    \/ add_item_start(CountingWhileAdding)
    \/ add_item_location(CountingWhileAdding)
    \/ add_item_name(CountingWhileAdding)
    \/ add_item_quantity(CountingWhileAdding)
    \/ add_item_category(CountingWhileAdding)
    \/ Unhandled(CountingWhileAdding)

SpecCountAdd == Init /\ [][NextCountAdd]_vars

(* C23: when a stocktake starts, and whenever a count moves it to another  *)
(* location, the location whose count is awaited is the first non-empty    *)
(* one in the order refrigerator_1, refrigerator_2, refrigerator_3,        *)
(* cupboard after the one left; every empty location before it is passed   *)
(* with one notice, at most four in all, and when no non-empty location is *)
(* left the confirmation is awaited: at once, with no result, when all     *)
(* four are empty at the start.                                            *)
C23_EmptyLocationsSkipped ==
    (/\ turn.handler \in {"start_counting", "handle_counting_quantity"}
     /\ ~turn.error
     /\ \/ turn.handler = "start_counting"
        \/ user_data.counting[1].current_location_index
             # pre.user_data.counting[1].current_location_index) =>
        LET order == <<"refrigerator_1", "refrigerator_2", "refrigerator_3", "cupboard">>
            from == IF turn.handler = "start_counting" THEN 1
                    ELSE pre.user_data.counting[1].current_location_index + 2
            nonempty == {j \in from..4 : data[order[j]] # <<>>}
            notices == SelectSeq(turn.replies, LAMBDA r : r.kind = "location_empty")
            counting == user_data.counting[1]
        IN  IF nonempty = {}
            THEN /\ conv[CountingConv] = "COUNTING_CONFIRM"
                 /\ [j \in 1..Len(notices) |-> notices[j].info] = SubText(order, from, 4)
                 /\ Replied("report")
                 /\ turn.handler = "start_counting" =>
                        /\ counting.results = <<>>
                        /\ turn.replies[Len(turn.replies)].info.lines = <<>>
            ELSE LET first == CHOOSE j \in nonempty : \A k \in nonempty : j <= k
                 IN  /\ conv[CountingConv] = "COUNTING_ITEM"
                     /\ counting.current_location = Some(order[first])
                     /\ counting.current_location_index = first - 1
                     /\ counting.current_items = Some(Keys(data[order[first]]))
                     /\ counting.current_items[1] # <<>>
                     /\ counting.current_item_index = Some(0)
                     /\ [j \in 1..Len(notices) |-> notices[j].info]
                          = SubText(order, from, first - 1)
                     /\ Len(notices) < 4

(* A count ends refrigerator_1; the two empty refrigerators are passed and *)
(* the cupboard is entered.                                                *)
C23_Witness ==
    /\ turn.handler = "handle_counting_quantity"
    /\ pre.user_data.counting[1].current_location = Some("refrigerator_1")
    /\ user_data.counting[1].current_location = Some("cupboard")
    /\ Len(turn.replies) = 3
    /\ conv[CountingConv] = "COUNTING_ITEM"

(* C25: the items of a location are those it held when the stocktake       *)
(* entered it.  No other flow changes the session; a valid count records   *)
(* the item that was awaited and nothing else, and while the location      *)
(* stays the same the item list stays the same and the next prompt is for  *)
(* its next item; so a record added to the location after it was entered   *)
(* is neither prompted for nor recorded.                                   *)
C25_ItemsSnapshotted ==
    /\ (turn.handler \notin {"none", "start_counting", "handle_counting_quantity"}) =>
            user_data.counting = pre.user_data.counting
    /\ (/\ turn.handler = "handle_counting_quantity"
        /\ calculate_expression(turn.text) # None
        /\ calculate_expression(turn.text)[1] >= 0) =>
            LET before == pre.user_data.counting[1]
                counting == user_data.counting[1]
                awaited == before.current_items[1][before.current_item_index[1] + 1]
            IN  /\ ~turn.error
                /\ Entries(counting.results)
                     = Append(Entries(before.results),
                              [location |-> before.current_location[1], name |-> awaited,
                               quantity |-> calculate_expression(turn.text)[1]])
                /\ counting.current_location_index = before.current_location_index =>
                       /\ counting.current_items = before.current_items
                       /\ conv[CountingConv] = "COUNTING_ITEM"
                       /\ turn.replies[1].kind = "count_prompt"
                       /\ turn.replies[1].info[2]
                            = before.current_items[1][before.current_item_index[1] + 2]
    /\ conv[CountingConv] = "COUNTING_ITEM" =>
            LET counting == user_data.counting[1]
                entries == Entries(counting.results)
            IN  \A i \in 1..Len(entries) :
                    entries[i].location = counting.current_location[1] =>
                        \E j \in 1..counting.current_item_index[1] :
                            counting.current_items[1][j] = entries[i].name

(* Water was added to refrigerator_1 while its only item was awaited: the  *)
(* count of that item ends the location and Water is not in the results.   *)
C25_Witness ==
    /\ turn.handler = "handle_counting_quantity"
    /\ pre.user_data.counting[1].current_location = Some("refrigerator_1")
    /\ Len(pre.user_data.counting[1].current_items[1]) = 1
    /\ Has(pre.data["refrigerator_1"], Water)
    /\ pre.user_data.counting[1].current_items[1][1] # Water
    /\ user_data.counting[1].current_location_index > 0
    /\ \A i \in 1..Len(Entries(user_data.counting[1].results)) :
           Entries(user_data.counting[1].results)[i].name # Water

----------------------------------------------------------------------------
(* SpecCountEdit: a stocktake with the edit flow beside it. *)

CountingWhileEditing ==
    [turns |-> MaxCountEditTurns,
     texts |->
    {get_main_keyboard.counting, get_main_keyboard.edit, get_locations_keyboard.cupboard,
         Cola, <<"3">>, <<"1">>, <<"-">>}]

NextCountEdit ==
    \/ start_counting(CountingWhileEditing)
    \/ handle_counting_quantity(CountingWhileEditing)
    \/ edit_item_start(CountingWhileEditing)
    \/ edit_item_location(CountingWhileEditing)
    \/ edit_item_name(CountingWhileEditing)
    \/ edit_item_quantity(CountingWhileEditing)
    \/ edit_item_category(CountingWhileEditing)
    \/ Unhandled(CountingWhileEditing)

SpecCountEdit == Init /\ [][NextCountEdit]_vars

(* C26: the report that asks for the confirmation has one line for every   *)
(* recorded entry, in order, with the quantity the store holds when the    *)
(* report is made, the recorded quantity and their difference (new minus   *)
(* old); its total is the sum of the differences, and the turn changes     *)
(* neither the store nor the file.                                         *)
C26_ReportAgainstStore ==
    Replied("report") =>
        LET entries == Entries(user_data.counting[1].results)
            report == turn.replies[Len(turn.replies)].info
            sum[i \in 0..Len(report.lines)] ==
                IF i = 0 THEN 0 ELSE sum[i - 1] + report.lines[i].difference
        IN  /\ turn.replies[Len(turn.replies)].kind = "report"
            /\ conv[CountingConv] = "COUNTING_CONFIRM"
            /\ Len(report.lines) = Len(entries)
            /\ \A i \in 1..Len(entries) :
                   /\ report.lines[i].location = entries[i].location
                   /\ report.lines[i].item = entries[i].name
                   /\ report.lines[i].new_quantity = entries[i].quantity
                   /\ report.lines[i].old_quantity
                        = QuantityOf(data[entries[i].location], entries[i].name)
                   /\ Has(data[entries[i].location], entries[i].name)
                   /\ report.lines[i].difference
                        = entries[i].quantity
                            - QuantityOf(data[entries[i].location], entries[i].name)
            /\ report.total_difference = sum[Len(report.lines)]
            /\ data = pre.data /\ disk = pre.disk

(* The cupboard's Cola, 2 when the stocktake started, was counted as 3 and *)
(* then edited to 1: the report says 1, 3 and +2, and the total covers the *)
(* second line as well.                                                    *)
C26_Witness ==
    /\ Replied("report")
    /\ \E i \in 1..Len(turn.replies[Len(turn.replies)].info.lines) :
           LET line == turn.replies[Len(turn.replies)].info.lines[i]
           IN  /\ line.location = "cupboard" /\ line.item = Cola
               /\ line.old_quantity = 1 /\ line.new_quantity = 3 /\ line.difference = 2
    /\ Len(turn.replies[Len(turn.replies)].info.lines) = 2
    /\ turn.replies[Len(turn.replies)].info.total_difference # 2

----------------------------------------------------------------------------
(* SpecSelect: the remove flow and the edit flow with the add flow beside  *)
(* them; the three keep their selection in the same user_data.             *)

SelectingWhileAdding ==
    [turns |-> MaxSelectTurns,
     texts |->
    {get_main_keyboard.remove, get_main_keyboard.edit, get_main_keyboard.add,
         get_locations_keyboard.refrigerator_1, get_locations_keyboard.cupboard,
         Cola, <<"2">>, <<"-">>}]

NextSelect ==
    \/ remove_item_start(SelectingWhileAdding)
    \/ remove_item_location(SelectingWhileAdding)
    \/ remove_item_name(SelectingWhileAdding)
    \/ edit_item_start(SelectingWhileAdding)
    \/ edit_item_location(SelectingWhileAdding)
    \/ edit_item_name(SelectingWhileAdding)
    \/ edit_item_quantity(SelectingWhileAdding)
    \/ edit_item_category(SelectingWhileAdding)
    \/ add_item_start(SelectingWhileAdding)
    \/ add_item_location(SelectingWhileAdding)
    \/ add_item_name(SelectingWhileAdding)
    \/ add_item_quantity(SelectingWhileAdding)
    \/ add_item_category(SelectingWhileAdding)
    \/ Unhandled(SelectingWhileAdding)

SpecSelect == Init /\ [][NextSelect]_vars

(* C29: the location selected in a remove flow, and the location and the   *)
(* name selected in an edit flow, are not overwritten by a handler of      *)
(* another flow while the flow waits for its next step, so that the final  *)
(* step deletes or changes the record the operator selected in that flow.  *)
C29_SelectionKept ==
    /\ pre.conv[3] = "REMOVE_ITEM"
           /\ turn.handler \notin {"remove_item_name", "none"}
           => user_data.location = pre.user_data.location
    /\ pre.conv[4] \in {"EDIT_NAME", "EDIT_QUANTITY", "EDIT_CATEGORY"}
           /\ turn.handler \notin {"edit_item_name", "edit_item_quantity",
                                   "edit_item_category", "none"}
           => user_data.location = pre.user_data.location
    /\ pre.conv[4] \in {"EDIT_QUANTITY", "EDIT_CATEGORY"}
           /\ turn.handler \notin {"edit_item_quantity", "edit_item_category", "none"}
           => user_data.name = pre.user_data.name

----------------------------------------------------------------------------
(* SpecFill: the fill-fridge flow on quantities of either sign, and the    *)
(* export of the store before and after it.                                *)

Filling ==
    [turns |-> MaxFillTurns,
     texts |->
    {get_main_keyboard.fill, get_main_keyboard.export,
         Cola, Water, <<"-", "1">>, <<"0">>, <<"1">>, <<"3">>, <<"abc">>}]

NextFill ==
    \/ start_fill_fridge(Filling)
    \/ select_fill_item(Filling)
    \/ handle_fill_quantity(Filling)
    \/ export_to_txt_handler(Filling)
    \/ Unhandled(Filling)

SpecFill == Init /\ [][NextFill]_vars

(* C30: whatever integer is entered as the quantity of a fill, the         *)
(* cupboard quantity of the item does not grow and no quantity in a        *)
(* refrigerator shrinks; a quantity of zero or less changes neither the    *)
(* store nor the file.                                                     *)
C30_OnlyCupboardToRefrigeration ==
    turn.handler = "handle_fill_quantity" /\ ParseInt(turn.text) # None =>
        /\ QuantityOf(data["cupboard"], pre.user_data.fill_item[1])
               <= QuantityOf(pre.data["cupboard"], pre.user_data.fill_item[1])
        /\ \A i \in 1..Len(Refrigerators), name \in Names :
               QuantityOf(data[Refrigerators[i]], name)
                   >= QuantityOf(pre.data[Refrigerators[i]], name)
        /\ \A i \in 1..Len(Refrigerators) :
               \A k \in 1..Len(data[Refrigerators[i]]) :
                   Has(pre.data[Refrigerators[i]], data[Refrigerators[i]][k].name)
                       \/ data[Refrigerators[i]][k].quantity > 0
        /\ ParseInt(turn.text)[1] <= 0 => data = pre.data /\ disk = pre.disk
====
